---- MODULE Spec2Model ----
(***************************************************************************)
(* Model of the collecting-website price acquisition and reconciliation    *)
(* subsystem: catalog URL validation and extraction, the reconcile upsert  *)
(* chain of the wishlist and collection services, purchase conversion,     *)
(* removals and edits, the price history writer, the manual refresh and    *)
(* the daily batch refresh.                                                *)
(*                                                                         *)
(* The relational store is modelled as SQLite behaves behind the Python    *)
(* sqlite3 module: `db` is the committed content, `wdb` is what the open   *)
(* connection sees (committed content plus its uncommitted writes);        *)
(* commit copies wdb to db, rollback or closing the connection copies db   *)
(* to wdb.                                                                 *)
(***************************************************************************)
EXTENDS Integers, Sequences, FiniteSets, TLC

VARIABLES db, wdb, pc, loc, result

vars == <<db, wdb, pc, loc, result>>

-----------------------------------------------------------------------------
(* Bounds of the model *)

MaxCatalog == 2
MaxPhysical == 1
MaxWanted == 1
MaxPurchased == 1
MaxPriceRows == 4
MaxViewPriceRows == 8
MaxDigits == 14
MaxPad == 1
MaxTime == 2

-----------------------------------------------------------------------------
(* Values *)

\* Python None / SQL NULL for prices and for row ids
NoPrice == -1
NoText == "None"

\* the three condition slots of a price fetch, in dict insertion order
PriceConditions == <<"complete", "new", "loose">>

-----------------------------------------------------------------------------
(* Catalog URLs.  A URL is the sequence of its lexical pieces: the          *)
(* separators ":", "/", "?" are pieces of their own, every other piece is   *)
(* a maximal run of ordinary characters.                                    *)

Separators == {":", "/", "?", "#"}

UrlPrefix == <<"https", ":", "/", "/", "www.pricecharting.com", "/", "game", "/">>

U_MarioKart == UrlPrefix \o <<"nintendo-64", "/", "mario-kart-64">>
U_Zelda == UrlPrefix \o <<"nes", "/", "zelda">>
U_NoConsole == UrlPrefix \o <<"/">>
U_Example == <<"https", ":", "/", "/", "example.com", "/", "foo">>
U_InvalidHost == <<"https", ":", "/", "/", "invalid-url.com">>
U_NotAUrl == <<"not-a-url">>
U_Empty == <<>>
U_Http == <<"http", ":", "/", "/", "www.pricecharting.com", "/", "game", "/", "nes", "/", "zelda">>
U_NoWww == <<"https", ":", "/", "/", "pricecharting.com", "/", "game", "/", "nes", "/", "zelda">>
U_Games == <<"https", ":", "/", "/", "www.pricecharting.com", "/", "games", "/", "nes", "/", "zelda">>
U_NoName == UrlPrefix \o <<"nes">>
U_PrefixOnly == UrlPrefix
U_QuerySlashes == UrlPrefix \o <<"nes", "?", "x", "/", "a", "/", "b">>
U_Console == <<"https", ":", "/", "/", "www.pricecharting.com", "/", "console", "/", "nes">>
U_Metroid == UrlPrefix \o <<"nes", "/", "metroid">>
U_MarioKartRef == U_MarioKart \o <<"?", "ref=1">>
U_NoConsoleGame == UrlPrefix \o <<"/", "mario-kart-64">>

ValidUrls == {U_MarioKart, U_Zelda, U_NoConsole}

InvalidUrls ==
    {U_Example, U_InvalidHost, U_NotAUrl, U_Empty, U_Http, U_NoWww, U_Games,
     U_NoName, U_PrefixOnly, U_QuerySlashes, U_Console}

Urls == ValidUrls \cup InvalidUrls

\* str.startswith
StartsWith(s, prefix) ==
    /\ Len(s) >= Len(prefix)
    /\ SubSeq(s, 1, Len(prefix)) = prefix

\* str.endswith
EndsWith(s, suffix) ==
    /\ Len(s) >= Len(suffix)
    /\ SubSeq(s, Len(s) - Len(suffix) + 1, Len(s)) = suffix

\* index of the first piece of s at or after position i that lies in stops,
\* Len(s) + 1 when there is none
RECURSIVE FindStop(_, _, _)
FindStop(s, i, stops) ==
    IF i > Len(s) THEN Len(s) + 1
    ELSE IF s[i] \in stops THEN i
    ELSE FindStop(s, i + 1, stops)

\* urllib.parse.urlparse: scheme, netloc and path of a URL
urlparse(url) ==
    LET hasScheme == Len(url) >= 2 /\ url[1] \notin Separators /\ url[2] = ":"
        scheme == IF hasScheme THEN url[1] ELSE ""
        rest == IF hasScheme THEN SubSeq(url, 3, Len(url)) ELSE url
        hasNetloc == Len(rest) >= 2 /\ rest[1] = "/" /\ rest[2] = "/"
        netEnd == FindStop(rest, 3, {"/", "?", "#"})
        netloc == IF hasNetloc THEN SubSeq(rest, 3, netEnd - 1) ELSE <<>>
        after == IF hasNetloc THEN SubSeq(rest, netEnd, Len(rest)) ELSE rest
        pathEnd == FindStop(after, 1, {"?", "#"})
    IN  [scheme |-> scheme, netloc |-> netloc, path |-> SubSeq(after, 1, pathEnd - 1)]

\* str.split('/') of a path: the pieces between consecutive "/"
RECURSIVE SplitSlash(_)
SplitSlash(path) ==
    LET stop == FindStop(path, 1, {"/"})
        head == SubSeq(path, 1, stop - 1)
        part == IF head = <<>> THEN "" ELSE head[1]
    IN  IF stop > Len(path) THEN <<part>>
        ELSE <<part>> \o SplitSlash(SubSeq(path, stop + 1, Len(path)))

\* the checks of the host and of the path left out
is_valid_pricecharting_url_PrefixOnly(url) ==
    url # <<>> /\ StartsWith(url, UrlPrefix)

\* PricechartingService.is_valid_pricecharting_url
is_valid_pricecharting_url(url) ==
    IF url = <<>> THEN FALSE
    ELSE IF ~StartsWith(url, UrlPrefix) THEN FALSE
    ELSE IF urlparse(url).netloc # <<"www.pricecharting.com">> THEN FALSE
    ELSE LET path_parts == SplitSlash(urlparse(url).path)
         IN  IF Len(path_parts) < 4 \/ path_parts[2] # "game" THEN FALSE
             ELSE TRUE

-----------------------------------------------------------------------------
(* Catalog pages and identity extraction.  Names are sequences of words.    *)

\* what requests.get(url) can bring back: a failure, or a page with the
\* title attribute of #product_name (pid, "" when absent), the ids its
\* scripts, data attributes and JSON fragments carry, and its name text
NetFail == [ok |-> FALSE, pid |-> "", script_id |-> "", data_id |-> "",
            json_id |-> "", hasName |-> FALSE, name |-> <<>>]

\* console.replace('-', ' ').title() of a URL path component
TitleWords(part) ==
    CASE part = "nintendo-64" -> <<"Nintendo", "64">>
      [] part = "nes" -> <<"Nes">>
      [] part = "" -> <<>>
      [] OTHER -> <<part>>

\* hashlib.md5(url.encode()).hexdigest(): a function of the URL alone (the
\* first nine digits of the digests of the URLs above, then the rest)
md5(url) ==
    CASE url = U_MarioKart -> <<"c38f93196", "rest">>
      [] url = U_Zelda -> <<"4ad384c10", "rest">>
      [] url = U_Metroid -> <<"a09f9dfdf", "rest">>
      [] url = U_MarioKartRef -> <<"94693593d", "rest">>
      [] url = U_NoConsole -> <<"8992e3e47", "rest">>
      [] url = U_NoConsoleGame -> <<"b12d6fee0", "rest">>
      [] OTHER -> <<"d41d8cd98", "rest">>

\* url_hash[:0]: the fallback id cut to nothing
UrlHash_Empty(url) == ""

\* url_hash[:9]
UrlHash(url) == md5(url)[1]

\* the id of a page: the title attribute, then a script's product_id, then
\* a data-product-id attribute, then a JSON "id", then the hash of the URL
IdChain(url, resp) ==
    IF resp.pid # "" THEN resp.pid
    ELSE IF resp.script_id # "" THEN resp.script_id
    ELSE IF resp.data_id # "" THEN resp.data_id
    ELSE IF resp.json_id # "" THEN resp.json_id
    ELSE UrlHash(url)

\* the first occurrence of sub in s as a contiguous run, 0 when absent
RECURSIVE FindSub(_, _, _)
FindSub(s, sub, i) ==
    IF i + Len(sub) - 1 > Len(s) THEN 0
    ELSE IF SubSeq(s, i, i + Len(sub) - 1) = sub THEN i
    ELSE FindSub(s, sub, i + 1)

\* str.replace(sub, "") on words
RECURSIVE RemoveAll(_, _)
RemoveAll(s, sub) ==
    LET i == FindSub(s, sub, 1)
    IN  IF sub = <<>> \/ i = 0 THEN s
        ELSE SubSeq(s, 1, i - 1) \o RemoveAll(SubSeq(s, i + Len(sub), Len(s)), sub)

\* the console-stripping post-processing of an extracted name
StripConsole(name, console) ==
    LET short == IF Len(console) >= 2 /\ console[1] = "Nintendo"
                 THEN Tail(console) ELSE console
    IN  IF name # <<>> /\ console # <<"unknown">>
        THEN IF EndsWith(name, console)
             THEN IF console = <<>> THEN <<>>
                  ELSE SubSeq(name, 1, Len(name) - Len(console))
             ELSE IF StartsWith(console, <<"Nintendo">>) /\ EndsWith(name, short)
             THEN IF short = <<>> THEN <<>>
                  ELSE SubSeq(name, 1, Len(name) - Len(short))
             ELSE IF FindSub(name, console, 1) # 0
             THEN RemoveAll(name, console)
             ELSE name
        ELSE name

\* name.rstrip(' -:,') on words: the trailing punctuation goes
RECURSIVE rstrip(_)
rstrip(name) ==
    IF name # <<>> /\ name[Len(name)] \in {"-", ":", ","}
    THEN rstrip(SubSeq(name, 1, Len(name) - 1))
    ELSE name

NoGameData == [name |-> <<>>, console |-> <<>>, pricecharting_id |-> "", url |-> <<>>]

\* PricechartingService.extract_game_data_from_url: the outcome for a URL
\* and the response the network gives when it is asked
extract_game_data_from_url(url, resp) ==
    IF ~is_valid_pricecharting_url(url)
    THEN [status |-> "invalid_url", fetched |-> FALSE, data |-> NoGameData]
    ELSE IF ~resp.ok
    THEN [status |-> "fetch_error", fetched |-> TRUE, data |-> NoGameData]
    ELSE IF ~resp.hasName
    THEN [status |-> "extract_error", fetched |-> TRUE, data |-> NoGameData]
    ELSE LET pricecharting_id == IdChain(url, resp)
             console == TitleWords(SplitSlash(urlparse(url).path)[3])
         IN  [status |-> "ok", fetched |-> TRUE,
              data |-> [name |-> rstrip(StripConsole(resp.name, console)),
                        console |-> console,
                        pricecharting_id |-> pricecharting_id,
                        url |-> url]]

\* the fallback values the services substitute for empty fields
WithFallbacks(game_data) ==
    [name |-> IF game_data.name = <<>> THEN <<"Unknown name">> ELSE game_data.name,
     console |-> IF game_data.console = <<>> THEN <<"Unknown console">>
                 ELSE game_data.console,
     pricecharting_id |-> IF game_data.pricecharting_id = "" THEN "999999"
                          ELSE game_data.pricecharting_id,
     url |-> IF game_data.url = <<>> THEN <<"Unknown url">> ELSE game_data.url]

-----------------------------------------------------------------------------
(* The relational store *)

EmptyDb ==
    [pricecharting_games |-> <<>>,
     physical_games |-> <<>>,
     physical_games_pricecharting_games |-> <<>>,
     purchased_games |-> {},
     purchased_seq |-> 0,
     wanted_games |-> {},
     wanted_seq |-> 0,
     pricecharting_prices |-> <<>>]

\* the rowids of the rows of a table (a sequence indexed by rowid)
RowIds(table) == 1..Len(table)

\* the first of a set of rowids, 0 when it is empty: cursor.fetchone() of a
\* SELECT id
FirstRow(ids) ==
    IF ids = {} THEN 0
    ELSE CHOOSE i \in ids : \A j \in ids : i <= j

\* the smallest id among the rows of a table with AUTOINCREMENT ids kept as a set
FirstId(rows) ==
    IF rows = {} THEN 0
    ELSE CHOOSE i \in {r.id : r \in rows} : \A r \in rows : i <= r.id

-----------------------------------------------------------------------------
(* Request inputs *)

\* the condition a request carries; the add endpoints do not validate it
CondInputs == {"complete", "Loose"}

\* purchase_date, purchase_source and purchase_price of a request
NoMeta == [date |-> NoText, source |-> NoText, price |-> NoPrice]

Meta1 == [date |-> "2024-01-15", source |-> "eBay", price |-> 30]

-----------------------------------------------------------------------------
(* State *)

NoLoc ==
    [op |-> "none", condition |-> NoText, meta |-> NoMeta, game_data |-> NoGameData,
     pricecharting_game_id |-> 0, physical_game_id |-> 0, row_id |-> 0,
     inserted |-> {}, games |-> <<>>, i |-> 0, successful |-> 0, failed |-> 0,
     barcode |-> <<>>, page |-> <<>>, attempted |-> <<>>, url |-> <<>>,
     conn |-> "closed", records |-> <<>>, todo |-> <<>>]

NoResult ==
    [op |-> "none", status |-> "none", fetched |-> FALSE, inserted |-> {}, rows |-> {}]

Init ==
    /\ db = EmptyDb
    /\ wdb = EmptyDb
    /\ pc = "idle"
    /\ loc = NoLoc
    /\ result = NoResult

\* the handler returns its response; its connection is closed
Return(op, status, fetched, inserted) ==
    /\ pc' = "done"
    /\ loc' = NoLoc
    /\ result' = [op |-> op, status |-> status, fetched |-> fetched,
                  inserted |-> inserted, rows |-> {}]

\* a read-only handler returns the rows of its query
ReturnRows(op, status, rows) ==
    /\ pc' = "done"
    /\ loc' = NoLoc
    /\ result' = [op |-> op, status |-> status, fetched |-> FALSE,
                  inserted |-> {}, rows |-> rows]

\* the caller has the response; the next request can be served
Respond ==
    /\ pc = "done"
    /\ pc' = "idle"
    /\ result' = NoResult
    /\ UNCHANGED <<db, wdb, loc>>

-----------------------------------------------------------------------------
(* The reconcile chain: WishlistService.add_game_to_wishlist and            *)
(* CollectionService.add_game_to_collection.  Each statement of the chain   *)
(* maps the connection's view w of the store and the locals l of the call   *)
(* to the view and the locals after it.                                     *)

AddOps == {"add_to_wishlist", "add_to_collection"}

AddPcs == {"add_catalog", "add_physical", "add_purchased", "add_link",
           "add_wanted", "add_commit"}

\* look up pricecharting_games by pricecharting_id, insert if absent
SelectOrInsertCatalog(w, l) ==
    LET gd == l.game_data
        Match(r) == r.pricecharting_id = gd.pricecharting_id
        found == FirstRow({i \in RowIds(w.pricecharting_games) :
                              Match(w.pricecharting_games[i])})
    IN  IF found # 0
        THEN [w |-> w, l |-> [l EXCEPT !.pricecharting_game_id = found]]
        ELSE [w |-> [w EXCEPT !.pricecharting_games = Append(@,
                        [pricecharting_id |-> gd.pricecharting_id, name |-> gd.name,
                         console |-> gd.console, url |-> gd.url])],
              l |-> [l EXCEPT !.pricecharting_game_id = Len(w.pricecharting_games) + 1,
                              !.inserted = @ \cup {"pricecharting_games"}]]

\* the lookup by (name, console) left out: a row is inserted on every call
SelectOrInsertPhysical_NoLookup(w, l) ==
    [w |-> [w EXCEPT !.physical_games = Append(@,
                [name |-> l.game_data.name, console |-> l.game_data.console])],
     l |-> [l EXCEPT !.physical_game_id = Len(w.physical_games) + 1,
                     !.inserted = @ \cup {"physical_games"}]]

\* look up physical_games by (name, console), insert if absent
SelectOrInsertPhysical(w, l) ==
    LET gd == l.game_data
        Match(r) == r.name = gd.name /\ r.console = gd.console
        found == FirstRow({i \in RowIds(w.physical_games) :
                              Match(w.physical_games[i])})
    IN  IF found # 0
        THEN [w |-> w, l |-> [l EXCEPT !.physical_game_id = found]]
        ELSE [w |-> [w EXCEPT !.physical_games = Append(@,
                        [name |-> gd.name, console |-> gd.console])],
              l |-> [l EXCEPT !.physical_game_id = Len(w.physical_games) + 1,
                              !.inserted = @ \cup {"physical_games"}]]

\* the lookup of the game's row left out: a row is inserted on every call
UpsertPurchased_AlwaysInsert(w, l) ==
    [w |-> [w EXCEPT !.purchased_games = @ \cup
                {[id |-> w.purchased_seq + 1, physical_game |-> l.physical_game_id,
                  condition |-> l.condition, acquisition_date |-> l.meta.date,
                  source |-> l.meta.source, price |-> l.meta.price]},
                      !.purchased_seq = @ + 1],
     l |-> [l EXCEPT !.row_id = w.purchased_seq + 1,
                     !.inserted = @ \cup {"purchased_games"}]]

\* collection only: update the purchased_games row of the game, or insert one
UpsertPurchased(w, l) ==
    LET owned == {r \in w.purchased_games : r.physical_game = l.physical_game_id}
        found == FirstId(owned)
        values(id) == [id |-> id, physical_game |-> l.physical_game_id,
                       condition |-> l.condition,
                       acquisition_date |-> l.meta.date,
                       source |-> l.meta.source, price |-> l.meta.price]
    IN  IF found # 0
        THEN [w |-> [w EXCEPT !.purchased_games =
                        {IF r.id = found THEN values(found) ELSE r : r \in @}],
              l |-> [l EXCEPT !.row_id = found]]
        ELSE [w |-> [w EXCEPT !.purchased_games = @ \cup {values(w.purchased_seq + 1)},
                              !.purchased_seq = @ + 1],
              l |-> [l EXCEPT !.row_id = w.purchased_seq + 1,
                              !.inserted = @ \cup {"purchased_games"}]]

\* look up the association of the two rows, insert if absent
SelectOrInsertLink(w, l) ==
    LET Match(r) == /\ r.physical_game = l.physical_game_id
                    /\ r.pricecharting_game = l.pricecharting_game_id
        found == FirstRow({i \in RowIds(w.physical_games_pricecharting_games) :
                              Match(w.physical_games_pricecharting_games[i])})
    IN  IF found # 0
        THEN [w |-> w, l |-> l]
        ELSE [w |-> [w EXCEPT !.physical_games_pricecharting_games = Append(@,
                        [physical_game |-> l.physical_game_id,
                         pricecharting_game |-> l.pricecharting_game_id])],
              l |-> [l EXCEPT !.inserted = @ \cup {"physical_games_pricecharting_games"}]]

\* the lookup of the game's row left out: a row is inserted on every call
UpsertWanted_AlwaysInsert(w, l) ==
    [w |-> [w EXCEPT !.wanted_games = @ \cup
                {[id |-> w.wanted_seq + 1,
                  physical_game |-> l.physical_game_id,
                  condition |-> l.condition]},
                      !.wanted_seq = @ + 1],
     l |-> [l EXCEPT !.row_id = w.wanted_seq + 1,
                     !.inserted = @ \cup {"wanted_games"}]]

\* wishlist only: update the wanted_games row of the game, or insert one
UpsertWanted(w, l) ==
    LET wanted == {r \in w.wanted_games : r.physical_game = l.physical_game_id}
        found == FirstId(wanted)
    IN  IF found # 0
        THEN [w |-> [w EXCEPT !.wanted_games =
                        {IF r.id = found THEN [r EXCEPT !.condition = l.condition]
                         ELSE r : r \in @}],
              l |-> [l EXCEPT !.row_id = found]]
        ELSE [w |-> [w EXCEPT !.wanted_games = @ \cup
                        {[id |-> w.wanted_seq + 1,
                          physical_game |-> l.physical_game_id,
                          condition |-> l.condition]},
                              !.wanted_seq = @ + 1],
              l |-> [l EXCEPT !.row_id = w.wanted_seq + 1,
                              !.inserted = @ \cup {"wanted_games"}]]

\* the statement executed at a position of the chain
AddStatement(at, w, l) ==
    CASE at = "add_catalog" -> SelectOrInsertCatalog(w, l)
      [] at = "add_physical" -> SelectOrInsertPhysical(w, l)
      [] at = "add_purchased" -> UpsertPurchased(w, l)
      [] at = "add_link" -> SelectOrInsertLink(w, l)
      [] at = "add_wanted" -> UpsertWanted(w, l)

\* the position that follows: the collection service writes the ownership
\* row before the association, the wishlist service the want row after it
AddNextPc(op, at) ==
    CASE at = "add_catalog" -> "add_physical"
      [] at = "add_physical" ->
            IF op = "add_to_collection" THEN "add_purchased" ELSE "add_link"
      [] at = "add_purchased" -> "add_link"
      [] at = "add_link" ->
            IF op = "add_to_wishlist" THEN "add_wanted" ELSE "add_commit"
      [] at = "add_wanted" -> "add_commit"

\* the content of the store fits the model's bounds
Fits(w) ==
    /\ Len(w.pricecharting_games) <= MaxCatalog
    /\ Len(w.physical_games) <= MaxPhysical
    /\ w.wanted_seq <= MaxWanted
    /\ w.purchased_seq <= MaxPurchased

\* extraction and the fallback values, up to BEGIN TRANSACTION
AddStart(op, url, condition, meta, resp) ==
    LET ex == extract_game_data_from_url(url, resp)
        game_data == WithFallbacks(ex.data)
    IN  /\ pc = "idle"
        /\ IF ex.status # "ok"
           THEN /\ Return(op, ex.status, ex.fetched, {})
                /\ UNCHANGED <<db, wdb>>
           ELSE /\ pc' = "add_catalog"
                /\ loc' = [NoLoc EXCEPT !.op = op, !.condition = condition,
                                        !.meta = meta, !.game_data = game_data]
                /\ UNCHANGED <<db, wdb, result>>

\* one statement of the chain
AddStep ==
    /\ pc \in AddPcs \ {"add_commit"}
    /\ LET after == AddStatement(pc, wdb, loc)
       IN  /\ wdb' = after.w
           /\ loc' = after.l
    /\ pc' = AddNextPc(loc.op, pc)
    /\ UNCHANGED <<db, result>>

\* conn.commit() and the return of the response
AddCommit ==
    /\ pc = "add_commit"
    /\ db' = wdb
    /\ wdb' = wdb
    /\ Return(loc.op, "ok", TRUE, loc.inserted)

\* the rollback left out: the statements already executed are committed
AddFail_NoRollback ==
    /\ pc \in AddPcs
    /\ db' = wdb
    /\ wdb' = wdb
    /\ Return(loc.op, "storage_error", TRUE, {})

\* a statement of the chain (or the commit) raises: conn.rollback() and
\* ValueError to the caller
AddFail ==
    /\ pc \in AddPcs
    /\ wdb' = db
    /\ db' = db
    /\ Return(loc.op, "storage_error", TRUE, {})

\* the requests that can arrive: a URL and what the catalog answers for it
AddInputs(reqs, conds, metas) ==
    \E op \in AddOps, rq \in reqs, condition \in conds, meta \in metas :
        AddStart(op, rq[1], condition,
                 IF op = "add_to_wishlist" THEN NoMeta ELSE meta, rq[2])

-----------------------------------------------------------------------------
(* The catalog as the requests see it *)

P_MarioKart == [ok |-> TRUE, pid |-> "101", script_id |-> "", data_id |-> "",
                json_id |-> "", hasName |-> TRUE,
                name |-> <<"Mario", "Kart", "64", "Nintendo", "64">>]
P_MarioKartNoId == [P_MarioKart EXCEPT !.pid = ""]
P_MarioKartRenamed == [P_MarioKart EXCEPT !.name = <<"Mario", "Kart">>]
P_Empty == [P_MarioKart EXCEPT !.pid = "", !.hasName = FALSE, !.name = <<>>]

\* every URL can fail to load; the Mario Kart page can come with its id,
\* without it, under another name, or without any name at all
ReconcileReqs ==
    {<<u, NetFail>> : u \in Urls}
    \cup {<<U_MarioKart, P_MarioKart>>, <<U_MarioKart, P_MarioKartNoId>>,
          <<U_MarioKart, P_MarioKartRenamed>>, <<U_MarioKart, P_Empty>>}

-----------------------------------------------------------------------------
(* The reconcile chain alone *)

NextReconcile ==
    \/ AddInputs(ReconcileReqs, CondInputs, {Meta1})
    \/ AddStep
    \/ AddCommit
    \/ AddFail
    \/ Respond

SpecReconcile == Init /\ [][NextReconcile]_vars

-----------------------------------------------------------------------------
(* The whole reconcile call as one step, for the specifications that do    *)
(* not look inside it: the chain's statements in order, then the commit,   *)
(* or a failure with its rollback                                          *)

RECURSIVE AddChain(_, _, _, _)
AddChain(op, at, w, l) ==
    IF at = "add_commit" THEN [w |-> w, l |-> l]
    ELSE LET after == AddStatement(at, w, l)
         IN  AddChain(op, AddNextPc(op, at), after.w, after.l)

AddWhole(op, url, condition, meta, resp) ==
    LET ex == extract_game_data_from_url(url, resp)
        game_data == WithFallbacks(ex.data)
        l0 == [NoLoc EXCEPT !.op = op, !.condition = condition,
                            !.meta = meta, !.game_data = game_data]
        after == AddChain(op, "add_catalog", db, l0)
    IN  /\ pc = "idle"
        /\ IF ex.status # "ok"
           THEN /\ Return(op, ex.status, ex.fetched, {})
                /\ UNCHANGED <<db, wdb>>
           ELSE /\ Fits(after.w)
                /\ \/ /\ db' = after.w
                      /\ wdb' = after.w
                      /\ Return(op, "ok", TRUE, after.l.inserted)
                   \/ /\ UNCHANGED <<db, wdb>>
                      /\ Return(op, "storage_error", TRUE, {})

AddWholeInputs(reqs, conds, metas) ==
    \E op \in AddOps, rq \in reqs, condition \in conds, meta \in metas :
        AddWhole(op, rq[1], condition,
                 IF op = "add_to_wishlist" THEN NoMeta ELSE meta, rq[2])

-----------------------------------------------------------------------------
(* routes.purchase_wishlist_game: convert a wishlist game to a purchase     *)

PurchasePcs == {"purchase_insert", "purchase_delete", "purchase_commit"}

\* game ids a request can name: the rows of physical_games and one more
GameIds == 1..(MaxPhysical + 1)

WantedOf(w, game_id) == {r \in w.wanted_games : r.physical_game = game_id}

OwnedOf(w, game_id) == {r \in w.purchased_games : r.physical_game = game_id}

\* validation of the request and the lookup of the wishlist row
PurchaseStart(game_id, meta) ==
    LET wanted == WantedOf(wdb, game_id)
        first == CHOOSE r \in wanted : r.id = FirstId(wanted)
    IN  /\ pc = "idle"
        /\ IF meta.date = NoText
           THEN /\ Return("purchase", "date_required", FALSE, {})
                /\ UNCHANGED <<db, wdb>>
           ELSE IF game_id > Len(wdb.physical_games) \/ wanted = {}
           THEN /\ Return("purchase", "not_found", FALSE, {})
                /\ UNCHANGED <<db, wdb>>
           ELSE /\ db.purchased_seq < MaxPurchased
                /\ pc' = "purchase_insert"
                /\ loc' = [NoLoc EXCEPT !.op = "purchase", !.physical_game_id = game_id,
                                        !.condition = first.condition, !.meta = meta]
                /\ UNCHANGED <<db, wdb, result>>

\* INSERT INTO purchased_games
PurchaseInsert ==
    /\ pc = "purchase_insert"
    /\ wdb' = [wdb EXCEPT !.purchased_games = @ \cup
                  {[id |-> wdb.purchased_seq + 1,
                    physical_game |-> loc.physical_game_id,
                    condition |-> loc.condition,
                    acquisition_date |-> loc.meta.date,
                    source |-> loc.meta.source, price |-> loc.meta.price]},
                          !.purchased_seq = @ + 1]
    /\ pc' = "purchase_delete"
    /\ UNCHANGED <<db, loc, result>>

\* DELETE FROM wanted_games WHERE physical_game = ?
PurchaseDelete ==
    /\ pc = "purchase_delete"
    /\ wdb' = [wdb EXCEPT !.wanted_games = @ \ WantedOf(wdb, loc.physical_game_id)]
    /\ pc' = "purchase_commit"
    /\ UNCHANGED <<db, loc, result>>

\* db.commit(), then the game is read back for the response
PurchaseCommit ==
    /\ pc = "purchase_commit"
    /\ db' = wdb
    /\ wdb' = wdb
    /\ IF \E i \in 1..Len(wdb.physical_games_pricecharting_games) :
             wdb.physical_games_pricecharting_games[i].physical_game = loc.physical_game_id
       THEN Return("purchase", "ok", FALSE, {"purchased_games"})
       ELSE Return("purchase", "info_not_found", FALSE, {"purchased_games"})

\* a connection in autocommit mode: what was executed stays
PurchaseFail_Autocommit ==
    /\ pc \in PurchasePcs
    /\ db' = wdb
    /\ wdb' = wdb
    /\ Return("purchase", "error", FALSE, {})

\* a statement or the commit raises, or the request is interrupted: the
\* connection is closed without a commit
PurchaseFail ==
    /\ pc \in PurchasePcs
    /\ wdb' = db
    /\ db' = db
    /\ Return("purchase", "error", FALSE, {})

Purchase(metas) ==
    \/ \E game_id \in GameIds, meta \in metas \cup {NoMeta} : PurchaseStart(game_id, meta)
    \/ PurchaseInsert
    \/ PurchaseDelete
    \/ PurchaseCommit
    \/ PurchaseFail

-----------------------------------------------------------------------------
(* The other endpoints that write the store *)

\* the conditions the two condition endpoints accept
valid_conditions == {"complete", "loose", "new"}

\* routes.remove_from_wishlist
remove_from_wishlist(game_id) ==
    /\ pc = "idle"
    /\ IF WantedOf(db, game_id) = {}
       THEN /\ Return("remove_from_wishlist", "not_found", FALSE, {})
            /\ UNCHANGED <<db, wdb>>
       ELSE /\ db' = [db EXCEPT !.wanted_games = @ \ WantedOf(db, game_id)]
            /\ wdb' = db'
            /\ Return("remove_from_wishlist", "ok", FALSE, {})

\* the removal cascading to the price history of the catalog
remove_from_collection_Cascade(purchased_game_id) ==
    LET rows == {r \in db.purchased_games : r.id = purchased_game_id}
    IN  /\ pc = "idle"
        /\ IF rows = {}
           THEN /\ Return("remove_from_collection", "not_found", FALSE, {})
                /\ UNCHANGED <<db, wdb>>
           ELSE /\ db' = [db EXCEPT !.purchased_games = @ \ rows,
                                    !.pricecharting_prices = <<>>]
                /\ wdb' = db'
                /\ Return("remove_from_collection", "ok", FALSE, {})

\* routes.remove_from_collection
remove_from_collection(purchased_game_id) ==
    LET rows == {r \in db.purchased_games : r.id = purchased_game_id}
    IN  /\ pc = "idle"
        /\ IF rows = {}
           THEN /\ Return("remove_from_collection", "not_found", FALSE, {})
                /\ UNCHANGED <<db, wdb>>
           ELSE /\ db' = [db EXCEPT !.purchased_games = @ \ rows]
                /\ wdb' = db'
                /\ Return("remove_from_collection", "ok", FALSE, {})

\* routes.update_wishlist_condition
update_wishlist_condition(game_id, condition) ==
    /\ pc = "idle"
    /\ IF condition \notin valid_conditions
       THEN /\ Return("update_wishlist_condition", "invalid_condition", FALSE, {})
            /\ UNCHANGED <<db, wdb>>
       ELSE IF WantedOf(db, game_id) = {}
       THEN /\ Return("update_wishlist_condition", "not_found", FALSE, {})
            /\ UNCHANGED <<db, wdb>>
       ELSE /\ db' = [db EXCEPT !.wanted_games =
                         {IF r.physical_game = game_id
                          THEN [r EXCEPT !.condition = condition] ELSE r : r \in @}]
            /\ wdb' = db'
            /\ Return("update_wishlist_condition", "ok", FALSE, {})

\* routes.update_collection_condition
update_collection_condition(game_id, condition) ==
    /\ pc = "idle"
    /\ IF condition \notin valid_conditions
       THEN /\ Return("update_collection_condition", "invalid_condition", FALSE, {})
            /\ UNCHANGED <<db, wdb>>
       ELSE IF OwnedOf(db, game_id) = {}
       THEN /\ Return("update_collection_condition", "not_found", FALSE, {})
            /\ UNCHANGED <<db, wdb>>
       ELSE /\ db' = [db EXCEPT !.purchased_games =
                         {IF r.physical_game = game_id
                          THEN [r EXCEPT !.condition = condition] ELSE r : r \in @}]
            /\ wdb' = db'
            /\ Return("update_collection_condition", "ok", FALSE, {})

\* routes.update_game_details
update_game_details(game_id, name, console) ==
    /\ pc = "idle"
    /\ IF name = <<>> \/ console = <<>>
       THEN /\ Return("update_game_details", "required", FALSE, {})
            /\ UNCHANGED <<db, wdb>>
       ELSE IF game_id > Len(db.physical_games)
       THEN /\ Return("update_game_details", "not_found", FALSE, {})
            /\ UNCHANGED <<db, wdb>>
       ELSE /\ db' = [db EXCEPT !.physical_games[game_id] =
                         [name |-> name, console |-> console]]
            /\ wdb' = db'
            /\ Return("update_game_details", "ok", FALSE, {})

\* the names and consoles an edit can carry
EditNames == {<<"Zelda">>, <<>>}
EditConsoles == {<<"Nintendo", "64">>}

Endpoints(conds) ==
    \/ \E game_id \in GameIds : remove_from_wishlist(game_id)
    \/ \E id \in 1..(MaxPurchased + 1) : remove_from_collection(id)
    \/ \E game_id \in GameIds, condition \in conds :
          update_wishlist_condition(game_id, condition)
    \/ \E game_id \in GameIds, condition \in conds :
          update_collection_condition(game_id, condition)
    \/ \E game_id \in GameIds, name \in EditNames, console \in EditConsoles :
          update_game_details(game_id, name, console)

-----------------------------------------------------------------------------
(* Price fetch and the price history writer *)

\* get_game_prices returning None
FetchFail == [ok |-> FALSE, time |-> 0, prices |-> [c \in {} |-> 0]]

\* get_game_prices returning the prices of the three slots read at one time
Fetched(time, prices) == [ok |-> TRUE, time |-> time, prices |-> prices]

ConditionSet == {PriceConditions[i] : i \in 1..Len(PriceConditions)}

\* the records insert_price_records builds from a fetch result
PriceRecords(pricecharting_id, fetch) ==
    LET rows == [i \in 1..Len(PriceConditions) |->
                    [pricecharting_id |-> pricecharting_id,
                     retrieve_time |-> fetch.time,
                     price |-> fetch.prices[PriceConditions[i]],
                     condition |-> PriceConditions[i]]]
        has_prices == \E c \in ConditionSet : fetch.prices[c] # NoPrice
    IN  IF has_prices THEN rows
        ELSE Append(rows, [pricecharting_id |-> pricecharting_id,
                           retrieve_time |-> fetch.time,
                           price |-> NoPrice, condition |-> "new"])

\* executemany: the first k records are inserted into pricecharting_prices
InsertRecords(w, records, k) ==
    [w EXCEPT !.pricecharting_prices = @ \o SubSeq(records, 1, k)]

\* the id of the game itself used where its catalog id is meant
LinkedCatalogId_UsesGameId(w, game_id) ==
    IF game_id = 1 THEN "1" ELSE IF game_id = 2 THEN "2" ELSE ""

\* the pricecharting_id the joins give for a game: that of its first
\* association, "" when the game has none
LinkedCatalogId(w, game_id) ==
    LET Match(r) == r.physical_game = game_id
        found == FirstRow({i \in RowIds(w.physical_games_pricecharting_games) :
                              Match(w.physical_games_pricecharting_games[i])})
    IN  IF found = 0 THEN ""
        ELSE w.pricecharting_games[
                 w.physical_games_pricecharting_games[found].pricecharting_game
             ].pricecharting_id

\* routes.update_game_price with price_retrieval.update_game_prices and
\* insert_price_records on the request's connection: when the insert or the
\* commit raises, the connection is closed with nothing committed
update_game_price(game_id, fetch, maxRows) ==
    LET pricecharting_id == LinkedCatalogId(db, game_id)
        records == PriceRecords(pricecharting_id, fetch)
    IN  /\ pc = "idle"
        /\ IF game_id > Len(db.physical_games)
           THEN /\ Return("update_price", "not_found", FALSE, {})
                /\ UNCHANGED <<db, wdb>>
           ELSE IF pricecharting_id = ""
           THEN /\ Return("update_price", "not_linked", FALSE, {})
                /\ UNCHANGED <<db, wdb>>
           ELSE IF ~fetch.ok
           THEN /\ Return("update_price", "fetch_failed", TRUE, {})
                /\ UNCHANGED <<db, wdb>>
           ELSE /\ Len(db.pricecharting_prices) + Len(PriceConditions) + 1 <= maxRows
                /\ \/ /\ db' = InsertRecords(db, records, Len(records))
                      /\ wdb' = db'
                      /\ Return("update_price", "ok", TRUE, {"pricecharting_prices"})
                   \/ /\ UNCHANGED <<db, wdb>>
                      /\ Return("update_price", "write_failed", TRUE, {})

-----------------------------------------------------------------------------
(* daily_price_update: the batch refresh *)

\* retrieve_time of the latest observation of a catalog id, 0 when it has none
LastObserved(w, pricecharting_id) ==
    LET times == {w.pricecharting_prices[i].retrieve_time :
                     i \in {j \in 1..Len(w.pricecharting_prices) :
                               w.pricecharting_prices[j].pricecharting_id = pricecharting_id}}
    IN  IF times = {} THEN 0 ELSE CHOOSE t \in times : \A u \in times : u <= t

\* the rows of a set of (game, catalog id) pairs in the view's order
RECURSIVE SortEligible(_, _)
SortEligible(w, rows) ==
    IF rows = {} THEN <<>>
    ELSE LET Before(a, b) ==
                 \/ LastObserved(w, a.pricecharting_id) < LastObserved(w, b.pricecharting_id)
                 \/ /\ LastObserved(w, a.pricecharting_id) = LastObserved(w, b.pricecharting_id)
                    /\ \/ a.game_id < b.game_id
                       \/ a.game_id = b.game_id /\ a.link <= b.link
             first == CHOOSE a \in rows : \A b \in rows : Before(a, b)
         IN  <<first>> \o SortEligible(w, rows \ {first})

\* the eligible_price_updates view: the games with a linked catalog id,
\* least recently priced first, never priced before all
eligible_price_updates(w) ==
    SortEligible(w,
        {[game_id |-> w.physical_games_pricecharting_games[k].physical_game,
          link |-> k,
          pricecharting_id |->
              w.pricecharting_games[
                  w.physical_games_pricecharting_games[k].pricecharting_game
              ].pricecharting_id] :
            k \in 1..Len(w.physical_games_pricecharting_games)})

\* the LIMIT left out
get_eligible_games_NoLimit(w, batch_size) == eligible_price_updates(w)

\* get_eligible_games: SELECT ... FROM eligible_price_updates LIMIT ?
get_eligible_games(w, batch_size) ==
    LET view == eligible_price_updates(w)
    IN  SubSeq(view, 1, IF batch_size < Len(view) THEN batch_size ELSE Len(view))

BatchPcs == {"batch_item", "batch_end"}

\* the games a dry run lists: the first ten of the selection
DryRunListing(games) ==
    {games[i] : i \in 1..(IF Len(games) < 10 THEN Len(games) ELSE 10)}

\* the --dry-run flag ignored: the loop runs as in a real run
BatchStart_DryRunIgnored(batch_size, dry_run, maxRows) ==
    LET games == get_eligible_games(db, batch_size)
    IN  /\ pc = "idle"
        /\ \/ /\ Return("batch", "exit1", FALSE, {})
              /\ UNCHANGED <<db, wdb>>
           \/ IF games = <<>>
              THEN /\ Return("batch", "exit0", FALSE, {})
                   /\ UNCHANGED <<db, wdb>>
              ELSE /\ Len(db.pricecharting_prices)
                         + Len(games) * (Len(PriceConditions) + 1) <= maxRows
                   /\ pc' = "batch_item"
                   /\ loc' = [NoLoc EXCEPT !.op = "batch", !.games = games, !.i = 1]
                   /\ UNCHANGED <<db, wdb, result>>

\* main up to the loop: the database file is missing or the selection raises
\* (exit status 1), or the selection returns: the empty case, the dry run,
\* the entry into the loop
BatchStart(batch_size, dry_run, maxRows) ==
    LET games == get_eligible_games(db, batch_size)
    IN  /\ pc = "idle"
        /\ \/ /\ Return("batch", "exit1", FALSE, {})
              /\ UNCHANGED <<db, wdb>>
           \/ IF games = <<>>
              THEN /\ Return("batch", "exit0", FALSE, {})
                   /\ UNCHANGED <<db, wdb>>
              ELSE IF dry_run
              THEN /\ ReturnRows("batch", "exit0", DryRunListing(games))
                   /\ UNCHANGED <<db, wdb>>
              ELSE /\ Len(db.pricecharting_prices)
                         + Len(games) * (Len(PriceConditions) + 1) <= maxRows
                   /\ pc' = "batch_item"
                   /\ loc' = [NoLoc EXCEPT !.op = "batch", !.games = games, !.i = 1]
                   /\ UNCHANGED <<db, wdb, result>>

\* the storage error of the insert not caught: it ends the run
BatchItem_WriteErrorAborts(fetch) ==
    LET item == loc.games[loc.i]
        records == PriceRecords(item.pricecharting_id, fetch)
        Advance(success) ==
            /\ loc' = [loc EXCEPT !.i = @ + 1,
                                  !.attempted = Append(@, item.game_id),
                                  !.successful = IF success THEN @ + 1 ELSE @,
                                  !.failed = IF success THEN @ ELSE @ + 1]
            /\ pc' = IF loc.i = Len(loc.games) THEN "batch_end" ELSE "batch_item"
            /\ UNCHANGED result
    IN  /\ pc = "batch_item"
        /\ IF ~fetch.ok
           THEN /\ Advance(FALSE)
                /\ UNCHANGED <<db, wdb>>
           ELSE \/ /\ db' = InsertRecords(db, records, Len(records))
                   /\ wdb' = db'
                   /\ Advance(TRUE)
                \/ \E k \in 0..(Len(records) - 1) :
                      /\ db' = InsertRecords(db, records, k)
                      /\ wdb' = db'
                      /\ Return("batch", "exit1", TRUE, {})

\* a failed item tried again in the same run
BatchItem_RetryOnFailure(fetch) ==
    LET item == loc.games[loc.i]
        records == PriceRecords(item.pricecharting_id, fetch)
    IN  /\ pc = "batch_item"
        /\ UNCHANGED result
        /\ IF ~fetch.ok
           THEN /\ loc' = [loc EXCEPT !.attempted = Append(@, item.game_id),
                                      !.failed = @ + 1]
                /\ pc' = "batch_item"
                /\ UNCHANGED <<db, wdb>>
           ELSE /\ db' = InsertRecords(db, records, Len(records))
                /\ wdb' = db'
                /\ loc' = [loc EXCEPT !.i = @ + 1,
                                      !.attempted = Append(@, item.game_id),
                                      !.successful = @ + 1]
                /\ pc' = IF loc.i = Len(loc.games) THEN "batch_end" ELSE "batch_item"

\* one round of the loop: the attempt is logged, then update_game_price of
\* the batch job.  The insert runs inside `with sqlite3.connect(...) as
\* conn`, which commits when insert_price_records returns, also when it
\* returns False after k records
BatchItem(fetch) ==
    LET item == loc.games[loc.i]
        records == PriceRecords(item.pricecharting_id, fetch)
        Advance(success) ==
            /\ loc' = [loc EXCEPT !.i = @ + 1,
                                  !.attempted = Append(@, item.game_id),
                                  !.successful = IF success THEN @ + 1 ELSE @,
                                  !.failed = IF success THEN @ ELSE @ + 1]
            /\ pc' = IF loc.i = Len(loc.games) THEN "batch_end" ELSE "batch_item"
            /\ UNCHANGED result
    IN  /\ pc = "batch_item"
        /\ IF ~fetch.ok
           THEN /\ Advance(FALSE)
                /\ UNCHANGED <<db, wdb>>
           ELSE \/ /\ db' = InsertRecords(db, records, Len(records))
                   /\ wdb' = db'
                   /\ Advance(TRUE)
                \/ \E k \in 0..(Len(records) - 1) :
                      /\ db' = InsertRecords(db, records, k)
                      /\ wdb' = db'
                      /\ Advance(FALSE)

\* the summary the run logs at its end
Summary(l) == {[successful |-> l.successful, failed |-> l.failed]}

\* exit status 1 as soon as one item has failed
BatchEnd_ExitOnAnyFailure ==
    /\ pc = "batch_end"
    /\ pc' = "done"
    /\ loc' = NoLoc
    /\ result' = [op |-> "batch",
                  status |-> IF loc.failed > 0 THEN "exit1" ELSE "exit0",
                  fetched |-> TRUE, inserted |-> {}, rows |-> Summary(loc)]
    /\ UNCHANGED <<db, wdb>>

\* the summary and the exit status
BatchEnd ==
    /\ pc = "batch_end"
    /\ pc' = "done"
    /\ loc' = NoLoc
    /\ result' = [op |-> "batch",
                  status |-> IF loc.failed > loc.successful THEN "exit1" ELSE "exit0",
                  fetched |-> TRUE, inserted |-> {}, rows |-> Summary(loc)]
    /\ UNCHANGED <<db, wdb>>

\* the job is killed between two statements
BatchKilled ==
    /\ pc \in BatchPcs
    /\ Return("batch", "killed", TRUE, {})
    /\ UNCHANGED <<db, wdb>>

MaxBatch == 2

Prices(fetches, maxRows) ==
    \/ \E game_id \in GameIds, fetch \in fetches : update_game_price(game_id, fetch, maxRows)
    \/ \E batch_size \in 1..MaxBatch, dry_run \in BOOLEAN :
          BatchStart(batch_size, dry_run, maxRows)
    \/ \E fetch \in fetches : BatchItem(fetch)
    \/ BatchEnd
    \/ BatchKilled

-----------------------------------------------------------------------------
(* The views that report a current price *)

\* SQL LOWER on the condition values that occur
Lower(c) ==
    CASE c = "Loose" -> "loose"
      [] c = "CIB" -> "cib"
      [] OTHER -> c

PriceRowIds(w) == 1..Len(w.pricecharting_prices)

\* the rows of one partition of the window: a catalog id and a condition
Partition(w, pricecharting_id, condition) ==
    {i \in PriceRowIds(w) :
        /\ w.pricecharting_prices[i].pricecharting_id = pricecharting_id
        /\ w.pricecharting_prices[i].condition = condition}

\* the rows a partition can number 1 under ORDER BY retrieve_time DESC: those
\* with the greatest retrieve_time; the order among equal times is not defined
FirstRanked(w, pricecharting_id, condition) ==
    LET part == Partition(w, pricecharting_id, condition)
    IN  {i \in part : \A j \in part :
            w.pricecharting_prices[j].retrieve_time <= w.pricecharting_prices[i].retrieve_time}

PartitionKeys(w) ==
    {<<w.pricecharting_prices[i].pricecharting_id, w.pricecharting_prices[i].condition>> :
        i \in PriceRowIds(w)}

\* the latest_prices CTE with rn = 1: one row of every partition; among
\* equal times the sort keeps the rows in the order of the scan, which reads
\* the table forwards or backwards
latest_prices(w, backwards) ==
    [k \in PartitionKeys(w) |->
        LET first == FirstRanked(w, k[1], k[2])
        IN  IF backwards THEN CHOOSE i \in first : \A j \in first : j <= i
            ELSE CHOOSE i \in first : \A j \in first : i <= j]

\* the choices of the first-ranked rows the query plans allow
LatestChoices(w) == {latest_prices(w, b) : b \in BOOLEAN}

\* x LEFT JOIN rows: the rows, or one all-NULL row when there are none
LeftJoin(rows, null) == IF rows = {} THEN {null} ELSE rows

NullOwned == [id |-> 0, physical_game |-> 0, condition |-> NoText,
              acquisition_date |-> NoText, source |-> NoText, price |-> NoPrice]
NullWanted == [id |-> 0, physical_game |-> 0, condition |-> NoText]
NullLink == [physical_game |-> 0, pricecharting_game |-> 0]

LinksOf(w, game_id) ==
    {w.physical_games_pricecharting_games[k] :
        k \in {j \in 1..Len(w.physical_games_pricecharting_games) :
                  w.physical_games_pricecharting_games[j].physical_game = game_id}}

\* the games_with_prices CTE of get_collection_games and get_single_game for
\* the games in ids, lp being the choice of the first-ranked rows
games_with_prices(w, lp, ids) ==
    UNION {
      UNION {
        UNION {
          UNION {
            LET pid == IF pcg = NullLink THEN ""
                       ELSE w.pricecharting_games[pcg.pricecharting_game].pricecharting_id
                matched ==
                    {k \in PartitionKeys(w) :
                        /\ k[1] = pid
                        /\ \/ pg.condition # NoText /\ Lower(k[2]) = Lower(pg.condition)
                           \/ wg.condition # NoText /\ Lower(k[2]) = Lower(wg.condition)}
                Row(price, lpcond) ==
                    [id |-> p, purchased_game_id |-> pg.id,
                     condition |-> IF wg.condition # NoText THEN wg.condition
                                   ELSE pg.condition,
                     pricecharting_id |-> pid,
                     price_condition |-> lpcond,
                     current_price |-> price]
            IN  IF matched = {} THEN {Row(NoPrice, NoText)}
                ELSE {Row(w.pricecharting_prices[lp[k]].price, k[2]) : k \in matched}
            : pcg \in LeftJoin(LinksOf(w, p), NullLink)}
          : wg \in LeftJoin(WantedOf(w, p), NullWanted)}
        : pg \in LeftJoin(OwnedOf(w, p), NullOwned)}
      : p \in ids}

\* Python: float(x) if x else None
FloatIfTruthy(x) == IF x = NoPrice \/ x = 0 THEN NoPrice ELSE x

\* routes.get_collection_games
get_collection_games ==
    /\ pc = "idle"
    /\ \E lp \in LatestChoices(db) :
          LET listed == {p \in 1..Len(db.physical_games) :
                            OwnedOf(db, p) # {} \/ WantedOf(db, p) # {}}
          IN  ReturnRows("get_collection_games", "ok",
                  {[r EXCEPT !.current_price = FloatIfTruthy(@)] :
                      r \in games_with_prices(db, lp, listed)})
    /\ UNCHANGED <<db, wdb>>

\* routes.get_single_game: the first row of the query
get_single_game(game_id) ==
    /\ pc = "idle"
    /\ IF game_id > Len(db.physical_games)
       THEN ReturnRows("get_single_game", "not_found", {})
       ELSE \E lp \in LatestChoices(db) :
               \E row \in games_with_prices(db, lp, {game_id}) :
                  ReturnRows("get_single_game", "ok", {row})
    /\ UNCHANGED <<db, wdb>>

\* routes.get_wishlist_items_sorted
get_wishlist_items_sorted ==
    /\ pc = "idle"
    /\ \E lp \in LatestChoices(db) :
          LET Slot(pid, c) ==
                  LET keys == {k \in PartitionKeys(db) : k[1] = pid /\ Lower(k[2]) = c}
                  IN  {FloatIfTruthy(db.pricecharting_prices[lp[k]].price) : k \in keys}
          IN  ReturnRows("get_wishlist_items_sorted", "ok",
                UNION {
                  UNION {
                    LET pid == IF pcg = NullLink THEN ""
                               ELSE db.pricecharting_games[pcg.pricecharting_game].pricecharting_id
                    IN  {[id |-> wg.physical_game, pricecharting_id |-> pid,
                          price_complete |-> pcomplete, price_loose |-> ploose,
                          price_new |-> pnew] :
                            pcomplete \in LeftJoin(Slot(pid, "complete"), NoPrice),
                            ploose \in LeftJoin(Slot(pid, "loose"), NoPrice),
                            pnew \in LeftJoin(Slot(pid, "new"), NoPrice)}
                    : pcg \in LeftJoin(LinksOf(db, wg.physical_game), NullLink)}
                  : wg \in db.wanted_games})
    /\ UNCHANGED <<db, wdb>>

Views ==
    \/ get_collection_games
    \/ \E game_id \in GameIds : get_single_game(game_id)
    \/ get_wishlist_items_sorted

-----------------------------------------------------------------------------
(* The price history and its readers *)

\* the prices of the three slots of a fetch: none, one, all with one of 0
PriceMaps ==
    {[c \in ConditionSet |-> NoPrice],
     [c \in ConditionSet |-> IF c = "complete" THEN 5 ELSE NoPrice],
     [c \in ConditionSet |-> IF c = "complete" THEN 0 ELSE 5]}

\* the clock is read once per fetch; nothing orders it against earlier reads
PriceFetches ==
    {FetchFail} \cup {Fetched(t, m) : t \in 1..MaxTime, m \in PriceMaps}

\* the writer under both refresh paths
NextPrices ==
    \/ AddWholeInputs({<<U_MarioKart, P_MarioKart>>}, {"complete"}, {Meta1})
    \/ Prices(PriceFetches, MaxPriceRows)
    \/ Respond

SpecPrices == Init /\ [][NextPrices]_vars

\* the views over a history of several manual refreshes
NextViews ==
    \/ AddWholeInputs({<<U_MarioKart, P_MarioKart>>}, {"complete"}, {Meta1})
    \/ \E game_id \in GameIds, fetch \in PriceFetches :
          update_game_price(game_id, fetch, MaxViewPriceRows)
    \/ Views
    \/ Respond

SpecViews == Init /\ [][NextViews]_vars

-----------------------------------------------------------------------------
(* routes.search_by_barcode.  A barcode is the sequence of its characters.  *)

\* characters str.isdigit accepts
DigitChars == {"0", "7"}

\* characters str.strip removes at both ends
Whitespace == {" "}

\* str.strip
RECURSIVE strip(_)
strip(s) ==
    IF s = <<>> THEN s
    ELSE IF s[1] \in Whitespace THEN strip(Tail(s))
    ELSE IF s[Len(s)] \in Whitespace THEN strip(SubSeq(s, 1, Len(s) - 1))
    ELSE s

\* ''.join(filter(str.isdigit, barcode))
cleaned_barcode(barcode) ==
    LET isdigit(ch) == ch \in DigitChars
    IN  SelectSeq(barcode, isdigit)

\* EAN-13 forgotten
valid_lengths_NoEan13 == {8, 12}

\* UPC-E, UPC-A, EAN-13
valid_lengths == {8, 12, 13}

\* the outcomes of the request to the catalog search endpoint
SearchOutcomes == {"ok", "timeout", "unavailable"}

\* the handler on the barcode of the pending request
search_by_barcode(outcome) ==
    LET barcode == strip(loc.barcode)
    IN  /\ pc = "idle"
        /\ IF barcode = <<>>
           THEN Return("search_by_barcode", "required", FALSE, {})
           ELSE IF Len(cleaned_barcode(barcode)) \notin valid_lengths
           THEN Return("search_by_barcode", "invalid_format", FALSE, {})
           ELSE Return("search_by_barcode", outcome, TRUE, {})
        /\ UNCHANGED <<db, wdb>>

\* n times the character ch
Repeat(ch, n) == [i \in 1..n |-> ch]

\* the barcodes a request can carry: two runs of digits around at most one
\* other character, with whitespace before and after
Barcodes ==
    {Repeat(" ", l) \o Repeat("0", a) \o mid \o Repeat("7", b) \o Repeat(" ", r) :
        l \in 0..MaxPad, r \in 0..MaxPad,
        a \in 0..MaxDigits, b \in 0..MaxDigits,
        mid \in {<<>>, <<"-">>, <<" ">>, <<"a">>}}

InitBarcode ==
    /\ db = EmptyDb
    /\ wdb = EmptyDb
    /\ pc = "idle"
    /\ result = NoResult
    /\ \E barcode \in Barcodes :
          /\ Len(cleaned_barcode(barcode)) <= MaxDigits
          /\ loc = [NoLoc EXCEPT !.op = "search_by_barcode", !.barcode = barcode]

NextBarcode ==
    \/ \E outcome \in SearchOutcomes : search_by_barcode(outcome)
    \/ Respond

SpecBarcode == InitBarcode /\ [][NextBarcode]_vars

-----------------------------------------------------------------------------
(* The system *)

\* the requests of the whole system: every URL, one catalog page
MainReqs ==
    {<<u, NetFail>> : u \in Urls} \cup {<<U_MarioKart, P_MarioKart>>}

\* the fetches of the whole system: a failure, or one price at one time
MainFetches ==
    {FetchFail, Fetched(1, [c \in ConditionSet |-> IF c = "complete" THEN 5 ELSE NoPrice])}

Next ==
    \/ AddWholeInputs(MainReqs, {"complete"}, {Meta1})
    \/ Purchase({Meta1})
    \/ Endpoints({"loose", "CIB"})
    \/ Prices(MainFetches, MaxPriceRows)
    \/ Respond

Spec == Init /\ [][Next]_vars

-----------------------------------------------------------------------------
(* Properties *)

ReconcileTables ==
    {"pricecharting_games", "physical_games", "physical_games_pricecharting_games"}

CatalogRowsOf(w, pricecharting_id) ==
    {i \in 1..Len(w.pricecharting_games) :
        w.pricecharting_games[i].pricecharting_id = pricecharting_id}

PhysicalRowsOf(w, name, console) ==
    {i \in 1..Len(w.physical_games) :
        w.physical_games[i].name = name /\ w.physical_games[i].console = console}

LinkRowsOf(w, p, c) ==
    {i \in 1..Len(w.physical_games_pricecharting_games) :
        /\ w.physical_games_pricecharting_games[i].physical_game = p
        /\ w.physical_games_pricecharting_games[i].pricecharting_game = c}

\* an earlier call has reconciled the identity: its three rows are stored
Reconciled(w, gd) ==
    \E c \in CatalogRowsOf(w, gd.pricecharting_id),
       p \in PhysicalRowsOf(w, gd.name, gd.console) : LinkRowsOf(w, p, c) # {}

\* C1: a reconcile call that commits leaves exactly one catalog row for its
\* catalog id, exactly one game row for its (name, console) and exactly one
\* association of the two; when an earlier call has stored the same identity,
\* the call inserts into none of the three tables.
C1_ReconcileIdempotent ==
    [][AddCommit =>
        LET gd == loc.game_data
            cs == CatalogRowsOf(db', gd.pricecharting_id)
            ps == PhysicalRowsOf(db', gd.name, gd.console)
        IN  /\ Cardinality(cs) = 1
            /\ Cardinality(ps) = 1
            /\ \A c \in cs, p \in ps : Cardinality(LinkRowsOf(db', p, c)) = 1
            /\ Reconciled(db, gd) =>
                  /\ db'.pricecharting_games = db.pricecharting_games
                  /\ db'.physical_games = db.physical_games
                  /\ db'.physical_games_pricecharting_games =
                         db.physical_games_pricecharting_games
                  /\ result'.inserted \cap ReconcileTables = {}
       ]_vars

\* a second call for a stored identity has committed without an insert
C1_Witness ==
    /\ pc = "done"
    /\ result.op \in AddOps
    /\ result.status = "ok"
    /\ result.inserted \cap ReconcileTables = {}
    /\ Len(db.physical_games_pricecharting_games) >= 1

\* C7: when a statement of the reconcile chain fails, the call ends with an
\* error for the caller, the committed store is what it was before the call
\* and the connection keeps no uncommitted row; no statement of the chain
\* persists anything before the commit.
C7_ReconcileRollback ==
    [][(pc \in AddPcs) =>
        /\ (pc' \in AddPcs) => db' = db
        /\ (pc' = "done" /\ result'.status # "ok") =>
              /\ result'.status = "storage_error"
              /\ db' = db
              /\ wdb' = db'
       ]_vars

\* a call has failed with a storage error
C7_Witness ==
    /\ pc = "done"
    /\ result.op \in AddOps
    /\ result.status = "storage_error"
    /\ wdb = db

\* the shape of a catalog URL, read off the pieces: the prefix, a host that
\* ends at the prefix's "/", and in the path, before any "?" or "#", a
\* further "/" that ends the console
MatchesShape(url) ==
    /\ StartsWith(url, UrlPrefix)
    /\ \E i \in (Len(UrlPrefix) + 1)..Len(url) :
          /\ url[i] = "/"
          /\ \A j \in (Len(UrlPrefix) + 1)..i : url[j] \notin {"?", "#"}

Appended == SubSeq(db'.pricecharting_prices, Len(db.pricecharting_prices) + 1,
                   Len(db'.pricecharting_prices))

\* a refresh, manual or of the batch, writes the result of a fetch with success
WriteStep(fetch) ==
    /\ fetch.ok
    /\ \/ /\ \E game_id \in GameIds : update_game_price(game_id, fetch, MaxPriceRows)
          /\ result'.status = "ok"
       \/ /\ BatchItem(fetch)
          /\ loc'.successful = loc.successful + 1

AllNull(fetch) == \A c \in ConditionSet : fetch.prices[c] = NoPrice

\* the number of rows of a sequence of price rows that carry a condition
RowsWith(rows, condition) ==
    Cardinality({i \in 1..Len(rows) : rows[i].condition = condition})

\* C2: a successful write of a fetch whose three prices are all null appends
\* exactly one row, of condition "new" and of null price.
C2_AllNullOneRow ==
    [][\A fetch \in PriceFetches :
          (WriteStep(fetch) /\ AllNull(fetch)) =>
             /\ Len(Appended) = 1
             /\ Appended[1].condition = "new"
             /\ Appended[1].price = NoPrice
             /\ Appended[1].retrieve_time = fetch.time
       ]_vars

\* C3: a successful write of a fetch with at least one non-null price appends
\* exactly one row for every condition whose price is non-null, carrying that
\* price, and no row for a condition whose price is null.
C3_RowPerNonNullPrice ==
    [][\A fetch \in PriceFetches :
          (WriteStep(fetch) /\ ~AllNull(fetch)) =>
             \A c \in ConditionSet :
                IF fetch.prices[c] = NoPrice
                THEN RowsWith(Appended, c) = 0
                ELSE /\ RowsWith(Appended, c) = 1
                     /\ \A i \in 1..Len(Appended) :
                           Appended[i].condition = c =>
                              Appended[i].price = fetch.prices[c]
       ]_vars

\* the number of rows of the committed history for a catalog id and a condition
HistoryCount(w, pricecharting_id, condition) ==
    Cardinality(Partition(w, pricecharting_id, condition))

LatestObservations(w, pricecharting_id, condition) ==
    LET pair == {i \in PriceRowIds(w) :
                    /\ w.pricecharting_prices[i].pricecharting_id = pricecharting_id
                    /\ Lower(w.pricecharting_prices[i].condition) = Lower(condition)}
    IN  {i \in pair : \A j \in pair :
            w.pricecharting_prices[j].retrieve_time
                <= w.pricecharting_prices[i].retrieve_time}

\* the price a view has to report for a catalog id and a condition
IsLatestPrice(w, pricecharting_id, condition, price) ==
    LET latest == LatestObservations(w, pricecharting_id, condition)
    IN  IF latest = {} THEN price = NoPrice
        ELSE \E i \in latest : price = w.pricecharting_prices[i].price

\* C5: the current price a view reports for a game with a catalog id and a
\* condition is the price of an observation of that pair with the greatest
\* retrieve_time; the wishlist view reports it for each of the three
\* conditions.
C5_CurrentPriceIsLatest ==
    /\ (pc = "done" /\ result.op \in {"get_collection_games", "get_single_game"}) =>
          \A r \in result.rows :
             (r.pricecharting_id # "" /\ r.condition # NoText) =>
                IsLatestPrice(db, r.pricecharting_id, r.condition, r.current_price)
    /\ (pc = "done" /\ result.op = "get_wishlist_items_sorted") =>
          \A r \in result.rows :
             r.pricecharting_id # "" =>
                /\ IsLatestPrice(db, r.pricecharting_id, "complete", r.price_complete)
                /\ IsLatestPrice(db, r.pricecharting_id, "loose", r.price_loose)
                /\ IsLatestPrice(db, r.pricecharting_id, "new", r.price_new)

\* C6: a purchase conversion either commits, and then the game has no want
\* row and one more ownership row than before and nothing else has changed,
\* or it ends before the commit, and then the committed store is what it was;
\* no step before the commit persists anything.
C6_PurchaseAllOrNothing ==
    [][(pc \in PurchasePcs) =>
        LET g == loc.physical_game_id
        IN  IF pc' = "done" /\ result'.status \in {"ok", "info_not_found"}
            THEN /\ WantedOf(db, g) # {}
                 /\ WantedOf(db', g) = {}
                 /\ Cardinality(OwnedOf(db', g)) = Cardinality(OwnedOf(db, g)) + 1
                 /\ db'.wanted_games = db.wanted_games \ WantedOf(db, g)
                 /\ db.purchased_games \subseteq db'.purchased_games
                 /\ Cardinality(db'.purchased_games) = Cardinality(db.purchased_games) + 1
            ELSE /\ db' = db
                 /\ pc' = "done" => wdb' = db
       ]_vars

\* a conversion has committed
C6_Witness ==
    /\ pc = "done"
    /\ result.op = "purchase"
    /\ result.status = "ok"
    /\ db.purchased_games # {}

\* the catalog ids of the persisted catalog rows
CatalogIds(w) ==
    {w.pricecharting_games[i].pricecharting_id : i \in 1..Len(w.pricecharting_games)}

\* C8: in every state each observation carries the catalog id of a stored
\* catalog row; a step appends observations only for catalog ids whose rows
\* were stored before the step, and no step removes or changes a catalog row.
C8_ObservationHasCatalog ==
    /\ [](\A i \in PriceRowIds(db) :
             db.pricecharting_prices[i].pricecharting_id \in CatalogIds(db))
    /\ [][/\ \A i \in 1..Len(Appended) :
                Appended[i].pricecharting_id \in CatalogIds(db)
          /\ Len(db.pricecharting_games) <= Len(db'.pricecharting_games)
          /\ SubSeq(db'.pricecharting_games, 1, Len(db.pricecharting_games))
                 = db.pricecharting_games
         ]_vars

\* observations of a catalog id are stored
C8_Witness ==
    /\ pc = "done"
    /\ result.op \in {"update_price", "batch"}
    /\ \E i \in PriceRowIds(db) :
          db.pricecharting_prices[i].pricecharting_id \in CatalogIds(db)

\* the number of characters of a barcode that are digits
DigitCount(barcode) ==
    Cardinality({i \in 1..Len(barcode) : barcode[i] \in {"0", "7"}})

\* C10: a barcode search queries the catalog search endpoint exactly when
\* the number of digits of the barcode is 8, 12 or 13; every other barcode is
\* answered with a validation error and no request is made.
C10_BarcodeLength ==
    [][(pc = "idle" /\ pc' = "done" /\ result'.op = "search_by_barcode") =>
        IF DigitCount(loc.barcode) \in {8, 12, 13}
        THEN /\ result'.fetched
             /\ result'.status \in SearchOutcomes
        ELSE /\ ~result'.fetched
             /\ result'.status \in {"required", "invalid_format"}
       ]_vars

\* a barcode with digits of a wrong number has been rejected
C10_Witness ==
    /\ pc = "done"
    /\ result.op = "search_by_barcode"
    /\ result.status = "invalid_format"
    /\ ~result.fetched

-----------------------------------------------------------------------------
(* The reconcile chain on degraded catalog pages *)

\* #product_name present with an empty text, and no other source of a name
P_Blank == [P_MarioKart EXCEPT !.name = <<>>]

\* the pages that load and leave a field of the identity empty or missing:
\* an empty name, an empty console in the URL, no name at all
FallbackReqs ==
    {<<U_MarioKart, P_Blank>>, <<U_NoConsole, P_MarioKart>>, <<U_MarioKart, P_Empty>>}

NextFallback ==
    \/ AddInputs(FallbackReqs, {"complete"}, {Meta1})
    \/ AddStep
    \/ AddCommit
    \/ AddFail
    \/ Respond

SpecFallback == Init /\ [][NextFallback]_vars

\* C11: an add request for a valid URL whose page loads does not fail for an
\* empty or missing name, console or catalog id: the call enters the chain
\* with the placeholder in the place of every such field, and its commit
\* leaves the catalog row, the game row and their association stored.
C11_PlaceholdersPersisted ==
    [][/\ (pc = "idle") =>
            \A op \in AddOps, rq \in FallbackReqs :
               AddStart(op, rq[1], "complete",
                        IF op = "add_to_wishlist" THEN NoMeta ELSE Meta1, rq[2]) =>
                  /\ pc' = "add_catalog"
                  /\ loc'.game_data.name # <<>>
                  /\ loc'.game_data.console # <<>>
                  /\ loc'.game_data.pricecharting_id # ""
                  /\ (~rq[2].hasName \/ rq[2].name = <<>>) =>
                        loc'.game_data.name = <<"Unknown name">>
                  /\ (rq[1] = U_NoConsole) =>
                        loc'.game_data.console = <<"Unknown console">>
       /\ AddCommit =>
            /\ result'.status = "ok"
            /\ Reconciled(db', loc.game_data)
      ]_vars

-----------------------------------------------------------------------------
(* The price fetch: get_game_prices and extract_price.  The text of a price *)
(* element is the sequence of its characters; prices are counted in cents.  *)

\* select_one finds no element for the selector
NoElement == <<"absent">>

DecimalDigits == <<"0", "1", "2", "3", "4", "5", "6", "7", "8", "9">>

IsDigit(ch) == \E i \in 1..Len(DecimalDigits) : DecimalDigits[i] = ch

DigitValue(ch) == (CHOOSE i \in 1..Len(DecimalDigits) : DecimalDigits[i] = ch) - 1

\* the number a run of digits writes
RECURSIVE DigitsValue(_)
DigitsValue(ds) ==
    IF ds = <<>> THEN 0
    ELSE 10 * DigitsValue(SubSeq(ds, 1, Len(ds) - 1)) + DigitValue(ds[Len(ds)])

\* the outcome of an expression: a value, or an exception
Value(v) == [raised |-> FALSE, value |-> v]
Raises == [raised |-> TRUE, value |-> NoPrice]

\* float(text) on unsigned texts with at most two decimals: surrounding
\* whitespace is ignored, digits with at most one "." are a number, every
\* other text raises ValueError
float(text) ==
    LET t == strip(text)
        dot == FindStop(t, 1, {"."})
        whole == SubSeq(t, 1, dot - 1)
        frac == SubSeq(t, dot + 1, Len(t))
        AllDigits(ds) == \A i \in 1..Len(ds) : IsDigit(ds[i])
        cents == IF Len(frac) = 0 THEN 0
                 ELSE IF Len(frac) = 1 THEN 10 * DigitsValue(frac)
                 ELSE DigitsValue(frac)
    IN  IF /\ AllDigits(whole) /\ AllDigits(frac)
           /\ Len(whole) + Len(frac) >= 1
           /\ Len(frac) <= 2
        THEN Value(100 * DigitsValue(whole) + cents)
        ELSE Raises

\* the marker "-" read as a price of zero
extract_price_DashIsZero(slot) ==
    IF slot = NoElement THEN Value(NoPrice)
    ELSE LET text == strip(slot)
             undollared == IF StartsWith(text, <<"$">>) THEN Tail(text) ELSE text
             NotComma(ch) == ch # ","
             price_text == SelectSeq(undollared, NotComma)
         IN  IF price_text = <<"-">> THEN Value(0) ELSE float(price_text)

\* extract_price on the element the selector of a slot finds
extract_price(slot) ==
    IF slot = NoElement THEN Value(NoPrice)
    ELSE LET text == strip(slot)
             undollared == IF StartsWith(text, <<"$">>) THEN Tail(text) ELSE text
             NotComma(ch) == ch # ","
             price_text == SelectSeq(undollared, NotComma)
         IN  IF price_text = <<"-">> THEN Value(NoPrice) ELSE float(price_text)

\* the handler for exceptions other than RequestException left out
get_game_prices_OnlyRequestException(page, time) ==
    LET parsed == [c \in ConditionSet |-> extract_price(page.slots[c])]
    IN  IF page.status # "ok" THEN [raised |-> FALSE, value |-> FetchFail]
        ELSE IF \E c \in ConditionSet : parsed[c].raised
        THEN [raised |-> TRUE, value |-> FetchFail]
        ELSE [raised |-> FALSE,
              value |-> Fetched(time, [c \in ConditionSet |-> parsed[c].value])]

\* get_game_prices on the response to its request, the clock reading `time`
get_game_prices(page, time) ==
    LET parsed == [c \in ConditionSet |-> extract_price(page.slots[c])]
    IN  IF page.status # "ok" THEN [raised |-> FALSE, value |-> FetchFail]
        ELSE IF \E c \in ConditionSet : parsed[c].raised
        THEN [raised |-> FALSE, value |-> FetchFail]
        ELSE [raised |-> FALSE,
              value |-> Fetched(time, [c \in ConditionSet |-> parsed[c].value])]

\* a call of get_game_prices for the page of the pending request
GetGamePrices(time) ==
    LET out == get_game_prices(loc.page, time)
    IN  /\ pc = "idle"
        /\ loc.op = "get_game_prices"
        /\ pc' = "done"
        /\ result' = [op |-> "get_game_prices",
                      status |-> IF out.raised THEN "raised"
                                 ELSE IF out.value.ok THEN "ok" ELSE "none",
                      fetched |-> TRUE, inserted |-> {}, rows |-> {out.value}]
        /\ UNCHANGED <<db, wdb, loc>>

\* the texts a price element can carry
SlotTexts ==
    {<<"-">>,
     <<"$", "5", ".", "0", "0">>,
     <<" ", "$", "1", ",", "2", "0", "0", ".", "5", " ">>,
     <<"$", "0", ".", "0", "0">>,
     <<"N", "/", "A">>,
     <<>>}

ResponseStatuses == {"ok", "timeout", "http_error"}

\* the responses: a failure of the request, or a page with its three slots
Pages ==
    {[status |-> st, slots |-> [c \in ConditionSet |-> NoElement]] :
        st \in ResponseStatuses \ {"ok"}}
    \cup {[status |-> "ok", slots |-> sl] :
             sl \in [ConditionSet -> SlotTexts \cup {NoElement}]}

InitFetch ==
    /\ db = EmptyDb
    /\ wdb = EmptyDb
    /\ pc = "idle"
    /\ result = NoResult
    /\ \E page \in Pages :
          loc = [NoLoc EXCEPT !.op = "get_game_prices", !.page = page]

NextFetch ==
    \/ \E time \in 1..MaxTime : GetGamePrices(time)
    \/ Respond

SpecFetch == InitFetch /\ [][NextFetch]_vars

\* a call of get_game_prices returns in the step
FetchReturns == pc = "idle" /\ pc' = "done" /\ result'.op = "get_game_prices"

\* what the call has returned
Returned == CHOOSE f \in result.rows : TRUE

\* the texts that write no number and are not the marker "-"
NotANumber == {<<"N", "/", "A">>, <<>>}

\* the price, in cents, the texts of the slots stand for; null for the
\* marker "-" and for an element that is missing
ExpectedPrice(slot) ==
    CASE slot = <<"$", "5", ".", "0", "0">> -> 500
      [] slot = <<" ", "$", "1", ",", "2", "0", "0", ".", "5", " ">> -> 120050
      [] slot = <<"$", "0", ".", "0", "0">> -> 0
      [] OTHER -> NoPrice

\* C12 as stated: whenever the page loads, the call returns a record in
\* which every slot has the price its own text stands for, or null for the
\* marker "-" and for a missing element, whatever the texts of the other two
\* slots are, text that is not a number included.
C12_SlotsIndependent ==
    [][(FetchReturns /\ loc.page.status = "ok") =>
          /\ result'.status = "ok"
          /\ \A c \in ConditionSet :
                loc.page.slots[c] \notin NotANumber =>
                   Returned'.prices[c] = ExpectedPrice(loc.page.slots[c])
      ]_vars

\* C12 amended: when the page loads and no slot carries text that is not a
\* number, the call returns a record in which every slot has the price its
\* own text stands for, and null, never zero, for the marker "-" and for a
\* missing element; when some slot carries text that is not a number, the
\* call returns None and the values of the other two slots are lost with it.
C12_SlotsIndependentWhenNumeric ==
    [][(FetchReturns /\ loc.page.status = "ok") =>
          IF \E c \in ConditionSet : loc.page.slots[c] \in NotANumber
          THEN /\ result'.status = "none"
               /\ Returned' = FetchFail
          ELSE /\ result'.status = "ok"
               /\ \A c \in ConditionSet :
                     /\ Returned'.prices[c] = ExpectedPrice(loc.page.slots[c])
                     /\ loc.page.slots[c] \in {<<"-">>, NoElement} =>
                           Returned'.prices[c] = NoPrice
      ]_vars

\* a page with a price, the marker "-" and a missing element has been read
C12_Witness ==
    /\ pc = "done"
    /\ result.op = "get_game_prices"
    /\ result.status = "ok"
    /\ loc.page.slots["complete"] = <<"$", "5", ".", "0", "0">>
    /\ loc.page.slots["new"] = <<"-">>
    /\ loc.page.slots["loose"] = NoElement
    /\ Returned.prices = [c \in ConditionSet |-> IF c = "complete" THEN 500 ELSE NoPrice]

\* C13: a call of get_game_prices always returns, it never raises: when the
\* request fails (network error, non-2xx status) or the parsing of the page
\* fails it returns None; otherwise it returns one record with one time and
\* the three conditions, and every row the writer builds from the record
\* carries that time.
C13_FetchNeverRaises ==
    [][FetchReturns =>
          /\ result'.status \in {"ok", "none"}
          /\ (loc.page.status # "ok") =>
                (result'.status = "none" /\ Returned' = FetchFail)
          /\ (\E c \in ConditionSet : loc.page.slots[c] \in NotANumber) =>
                (result'.status = "none" /\ Returned' = FetchFail)
          /\ (result'.status = "ok") =>
                /\ Returned'.ok
                /\ Returned'.time \in 1..MaxTime
                /\ DOMAIN Returned'.prices = ConditionSet
                /\ LET records == PriceRecords("101", Returned')
                   IN  /\ Len(records) >= Cardinality(ConditionSet)
                       /\ \A i \in 1..Len(records) :
                             records[i].retrieve_time = Returned'.time
      ]_vars

\* a page has loaded with text that is not a number and None has been returned
C13_Witness ==
    /\ pc = "done"
    /\ result.op = "get_game_prices"
    /\ result.status = "none"
    /\ loc.page.status = "ok"
    /\ \E c \in ConditionSet : loc.page.slots[c] \in NotANumber

-----------------------------------------------------------------------------
(* The batch refresh over a library of three games, each added to the       *)
(* wishlist from its own catalog page and refreshed by hand at most once   *)

MaxBatchPriceRows == 10

LibraryTitles == <<<<"Mario", "Kart", "64">>, <<"Zelda">>, <<"Metroid">>>>

LibraryIds == <<"101", "102", "103">>

LibraryUrls == <<U_MarioKart, U_Zelda, U_Metroid>>

\* the console the extraction reads off the URL
LibraryConsole(g) == TitleWords(SplitSlash(urlparse(LibraryUrls[g]).path)[3])

LibraryGames == 1..Len(LibraryTitles)

\* the prices of a refresh by hand: one price, two slots without
OnePrice == [c \in ConditionSet |-> IF c = "complete" THEN 5 ELSE NoPrice]

\* the store after the three adds and, for every game g with seen[g] > 0, a
\* refresh by hand at time seen[g]
Library(seen) ==
    LET RowsOf(g) == IF seen[g] = 0 THEN <<>>
                     ELSE PriceRecords(LibraryIds[g], Fetched(seen[g], OnePrice))
    IN  [pricecharting_games |->
             [g \in LibraryGames |->
                 [pricecharting_id |-> LibraryIds[g], name |-> LibraryTitles[g],
                  console |-> LibraryConsole(g), url |-> LibraryUrls[g]]],
         physical_games |->
             [g \in LibraryGames |->
                 [name |-> LibraryTitles[g], console |-> LibraryConsole(g)]],
         physical_games_pricecharting_games |->
             [g \in LibraryGames |-> [physical_game |-> g, pricecharting_game |-> g]],
         purchased_games |-> {},
         purchased_seq |-> 0,
         wanted_games |->
             {[id |-> g, physical_game |-> g, condition |-> "complete"] :
                 g \in LibraryGames},
         wanted_seq |-> Len(LibraryTitles),
         pricecharting_prices |-> RowsOf(1) \o RowsOf(2) \o RowsOf(3)]

InitBatch ==
    /\ \E seen \in [LibraryGames -> 0..MaxTime] :
          /\ db = Library(seen)
          /\ wdb = Library(seen)
    /\ pc = "idle"
    /\ loc = NoLoc
    /\ result = NoResult

\* what a fetch of the batch brings: nothing, or one price read at the
\* latest time of the clock
BatchFetches == {FetchFail, Fetched(MaxTime, OnePrice)}

NextBatch ==
    \/ \E batch_size \in 1..MaxBatch, dry_run \in BOOLEAN :
          BatchStart(batch_size, dry_run, MaxBatchPriceRows)
    \/ \E fetch \in BatchFetches : BatchItem(fetch)
    \/ BatchEnd
    \/ BatchKilled
    \/ Respond

SpecBatch == InitBatch /\ [][NextBatch]_vars

\* C14: when the insert of the rows of a fetch fails in the batch, the item
\* is counted as failed, the counters and the selection are otherwise as
\* they were, and the run goes on with the next item, or with the summary
\* after the last one; the run does not end with the error.
C14_WriteErrorCountsAsFailed ==
    [][(pc = "batch_item") =>
          \A fetch \in BatchFetches :
             (/\ fetch.ok
              /\ BatchItem(fetch)
              /\ Len(Appended)
                    < Len(PriceRecords(loc.games[loc.i].pricecharting_id, fetch))) =>
                /\ loc'.failed = loc.failed + 1
                /\ loc'.successful = loc.successful
                /\ loc'.games = loc.games
                /\ loc'.i = loc.i + 1
                /\ pc' = IF loc.i < Len(loc.games) THEN "batch_item" ELSE "batch_end"
                /\ result' = result
      ]_vars

\* the write of the first item has failed after one or two rows and the run
\* is at its second item
C14_Witness ==
    /\ pc = "batch_item"
    /\ loc.i = 2
    /\ loc.failed = 1
    /\ Len(db.pricecharting_prices) \in {1, 2}

\* the ids of a selection, in its order
GameIdsOf(games) == [k \in 1..Len(games) |-> games[k].game_id]

\* C15: a run that is not a dry run enters the loop with the selection and
\* no item counted; every round attempts the game at the current position,
\* counts it once as successful or failed and moves to the next position,
\* whatever the outcome; at the end the games attempted are the games
\* selected, each once and in the order of the selection, and successful
\* plus failed is their number.
C15_EveryGameAttemptedOnce ==
    [][/\ (pc = "idle" /\ pc' = "batch_item") =>
             /\ \E batch_size \in 1..MaxBatch :
                   loc'.games = get_eligible_games(db, batch_size)
             /\ loc'.i = 1
             /\ loc'.attempted = <<>>
             /\ loc'.successful = 0 /\ loc'.failed = 0
       /\ (pc = "batch_item" /\ pc' \in BatchPcs) =>
             /\ loc'.games = loc.games
             /\ loc'.i = loc.i + 1
             /\ loc'.attempted = Append(loc.attempted, loc.games[loc.i].game_id)
             /\ loc'.successful + loc'.failed = loc.successful + loc.failed + 1
             /\ loc'.successful >= loc.successful /\ loc'.failed >= loc.failed
             /\ (pc' = "batch_end") <=> (loc.i = Len(loc.games))
       /\ (pc = "batch_end") =>
             /\ loc.attempted = GameIdsOf(loc.games)
             /\ loc.successful + loc.failed = Len(loc.games)
      ]_vars

\* a run over two games has reached its end after a failure and a success
C15_Witness ==
    /\ pc = "batch_end"
    /\ Len(loc.games) = 2
    /\ loc.attempted = GameIdsOf(loc.games)
    /\ loc.failed = 1
    /\ loc.successful = 1

\* C16 as stated: a run ends with exit status 1 only when more items have
\* failed than succeeded; a run that reaches its summary with a tie or a
\* majority of successes ends with status 0.
C16_ExitOneOnlyOnFailureMajority ==
    [][(pc' = "done" /\ result'.op = "batch" /\ result'.status \in {"exit0", "exit1"}) =>
          /\ (result'.status = "exit1") => (loc.failed > loc.successful)
          /\ (pc = "batch_end" /\ loc.failed <= loc.successful) =>
                result'.status = "exit0"
      ]_vars

\* C16 amended: a run that reaches its summary ends with exit status 1
\* exactly when more items have failed than succeeded, and with status 0 on
\* a tie or a majority of successes; a run also ends with status 1, before
\* any item is attempted, when the database file is missing or the
\* selection raises.
C16_ExitStatus ==
    [][(pc' = "done" /\ result'.op = "batch" /\ result'.status \in {"exit0", "exit1"}) =>
          /\ (pc = "batch_end") =>
                /\ result'.status = IF loc.failed > loc.successful THEN "exit1"
                                    ELSE "exit0"
                /\ result'.rows = {[successful |-> loc.successful, failed |-> loc.failed]}
          /\ (result'.status = "exit1") =>
                \/ pc = "batch_end" /\ loc.failed > loc.successful
                \/ pc = "idle" /\ ~result'.fetched /\ db' = db
      ]_vars

\* a run has ended with status 0 on a tie
C16_Witness ==
    /\ pc = "done"
    /\ result.op = "batch"
    /\ result.status = "exit0"
    /\ result.rows = {[successful |-> 1, failed |-> 1]}

ObservedTimes(w, pricecharting_id) ==
    {w.pricecharting_prices[i].retrieve_time :
        i \in {j \in PriceRowIds(w) :
                  w.pricecharting_prices[j].pricecharting_id = pricecharting_id}}

\* a has not been priced more recently than b: a was never priced, or b was
\* priced at a time no observation of a is later than
NotNewer(w, a, b) ==
    \/ ObservedTimes(w, a) = {}
    \/ \E tb \in ObservedTimes(w, b) : \A ta \in ObservedTimes(w, a) : ta <= tb

\* the (game, catalog id) pairs that are linked
EligiblePairs(w) ==
    {<<w.physical_games_pricecharting_games[k].physical_game,
       w.pricecharting_games[
           w.physical_games_pricecharting_games[k].pricecharting_game
       ].pricecharting_id>> :
        k \in 1..Len(w.physical_games_pricecharting_games)}

\* what a start of the batch has selected: the list of a dry run, or the
\* games of the loop
SelectedPairs(rs, l) ==
    {<<g.game_id, g.pricecharting_id>> : g \in rs.rows}
    \cup {<<l.games[k].game_id, l.games[k].pricecharting_id>> : k \in 1..Len(l.games)}

\* C18: the games a batch selects are at most batch_size and as many as
\* that when enough are eligible; each is a game linked to the catalog id it
\* is selected with; no eligible game left out has been priced less
\* recently than a selected one (a game never priced counting as the least
\* recent); and the loop takes them least recently priced first.
C18_LeastRecentlyPricedFirst ==
    [][(pc = "idle") =>
          \A batch_size \in 1..MaxBatch, dry_run \in BOOLEAN :
             (/\ BatchStart(batch_size, dry_run, MaxBatchPriceRows)
              /\ \/ pc' = "batch_item"
                 \/ result'.status = "exit0" /\ result'.rows # {}) =>
                LET selected == SelectedPairs(result', loc')
                    eligible == EligiblePairs(db)
                IN  /\ Cardinality(selected) <= batch_size
                    /\ \/ Cardinality(selected) = batch_size
                       \/ selected = eligible
                    /\ selected \subseteq eligible
                    /\ \A s \in selected, e \in eligible \ selected :
                          NotNewer(db, s[2], e[2])
                    /\ \A j \in 1..Len(loc'.games), k \in 1..Len(loc'.games) :
                          j < k => NotNewer(db, loc'.games[j].pricecharting_id,
                                                loc'.games[k].pricecharting_id)
      ]_vars

\* a batch has selected a game never priced and left out games priced before
C18_Witness ==
    /\ pc = "batch_item"
    /\ loc.i = 1
    /\ \A k \in 1..Len(loc.games) :
          ObservedTimes(db, loc.games[k].pricecharting_id) = {}
    /\ \E e \in EligiblePairs(db) :
          /\ e \notin SelectedPairs(result, loc)
          /\ ObservedTimes(db, e[2]) # {}

-----------------------------------------------------------------------------
(* The games and the wishlist under adds, purchases, removals and edits *)

\* one catalog page under two names: two games of one catalog id
GamesReqs == {<<U_MarioKart, P_MarioKart>>, <<U_MarioKart, P_MarioKartRenamed>>}

\* an edit to the name and console another game can have
GamesEdit == [name |-> <<"Mario", "Kart">>, console |-> <<"Nintendo", "64">>]

NextGames ==
    \/ /\ Len(db.physical_games) <= MaxPhysical
       /\ db.wanted_seq <= MaxWanted
       /\ AddInputs(GamesReqs, {"complete", "loose"}, {Meta1})
    \/ AddStep
    \/ AddCommit
    \/ AddFail
    \/ Purchase({Meta1})
    \/ \E game_id \in GameIds : remove_from_wishlist(game_id)
    \/ \E game_id \in GameIds, condition \in {"new", "CIB"} :
          update_wishlist_condition(game_id, condition)
    \/ \E game_id \in GameIds :
          update_game_details(game_id, GamesEdit.name, GamesEdit.console)
    \/ Respond

SpecGames == Init /\ [][NextGames]_vars

\* C19: in every state, committed or inside a transaction, a game has at
\* most one row of the wishlist; an add to the wishlist of a game that is on
\* the wishlist commits with the same row carrying the condition of the
\* request, and no row is inserted.
C19_OneWantPerGame ==
    /\ [](\A game_id \in 1..Len(wdb.physical_games) :
             /\ Cardinality(WantedOf(db, game_id)) <= 1
             /\ Cardinality(WantedOf(wdb, game_id)) <= 1)
    /\ [][(AddCommit /\ loc.op = "add_to_wishlist"
                     /\ WantedOf(db, loc.physical_game_id) # {}) =>
             /\ WantedOf(db', loc.physical_game_id) =
                   {[r EXCEPT !.condition = loc.condition] :
                       r \in WantedOf(db, loc.physical_game_id)}
             /\ Cardinality(db'.wanted_games) = Cardinality(db.wanted_games)
             /\ db'.wanted_seq = db.wanted_seq
             /\ "wanted_games" \notin result'.inserted
         ]_vars

\* a game on the wishlist has been added to the wishlist again, with
\* another condition
C19_Witness ==
    /\ pc = "done"
    /\ result.op = "add_to_wishlist"
    /\ result.status = "ok"
    /\ "wanted_games" \notin result.inserted
    /\ \E r \in db.wanted_games : r.condition = "loose"
    /\ db.wanted_seq = 1

\* C20: in every state no two rows of the games have the same name and the
\* same console.
C20_UniqueNamePlatform ==
    \A i \in RowIds(db.physical_games), j \in RowIds(db.physical_games) :
       (i # j) =>
          \/ db.physical_games[i].name # db.physical_games[j].name
          \/ db.physical_games[i].console # db.physical_games[j].console

-----------------------------------------------------------------------------
(* The extractor on its own: a URL and the page the network answers with    *)
(* are drawn, the add services call the extractor on them, and the call     *)
(* returns the game data or raises.                                         *)

NoException == [type |-> "none", message |-> <<>>]

\* what extract_game_data_from_url raises at an outcome: ValueError for an
\* invalid URL and for a failed fetch, and the AttributeError of
\* None.rstrip for a page without a name
ExtractionError(status) ==
    CASE status = "invalid_url" ->
            [type |-> "ValueError", message |-> <<"Invalid pricecharting.com URL">>]
      [] status = "fetch_error" ->
            [type |-> "ValueError", message |-> <<"Failed to fetch page">>]
      [] status = "extract_error" ->
            [type |-> "AttributeError",
             message |-> <<"'NoneType' object has no attribute 'rstrip'">>]
      [] OTHER -> NoException

\* except Exception as e: raise ValueError(f"Failed to extract game data:
\* {str(e)}") of the two add services
ServiceError(e) ==
    IF e = NoException THEN NoException
    ELSE [type |-> "ValueError",
          message |-> <<"Failed to extract game data">> \o e.message]

\* the extraction step of add_game_to_wishlist and add_game_to_collection:
\* the extractor's outcome, what crossed its boundary and what the caller
\* of the service is given
ExtractGameData ==
    /\ pc = "idle"
    /\ loc.op = "extract"
    /\ LET ex == extract_game_data_from_url(loc.url, loc.page)
           e == ExtractionError(ex.status)
       IN  result' = [op |-> "extract", status |-> ex.status,
                      fetched |-> ex.fetched, inserted |-> {},
                      rows |-> {[data |-> ex.data, boundary |-> e,
                                 caller |-> ServiceError(e)]}]
    /\ pc' = "done"
    /\ UNCHANGED <<db, wdb, loc>>

\* the names a catalog page can show for a game
ExtractNames ==
    {<<"Mario", "Kart", "64", "Nintendo", "64">>, <<"Mario", "Kart", "64">>,
     <<"Zelda", "Nes">>, <<"Zelda", "-", "Nes">>,
     <<"Nintendo", "64", "Party", "Nintendo", "64">>, <<>>}

\* where a page carries its id: in the title attribute, in a script, in a
\* JSON fragment, or nowhere
ExtractIds ==
    {[pid |-> "101", script_id |-> "", data_id |-> "", json_id |-> ""],
     [pid |-> "", script_id |-> "202", data_id |-> "", json_id |-> ""],
     [pid |-> "", script_id |-> "", data_id |-> "", json_id |-> "303"],
     [pid |-> "", script_id |-> "", data_id |-> "", json_id |-> ""]}

ExtractPages ==
    {NetFail, P_Empty}
    \cup {[ok |-> TRUE, pid |-> i.pid, script_id |-> i.script_id,
           data_id |-> i.data_id, json_id |-> i.json_id,
           hasName |-> TRUE, name |-> n] : i \in ExtractIds, n \in ExtractNames}

ExtractUrls == Urls \cup {U_MarioKartRef, U_NoConsoleGame}

InitExtract ==
    /\ db = EmptyDb
    /\ wdb = EmptyDb
    /\ pc = "idle"
    /\ \E url \in ExtractUrls, page \in ExtractPages :
          loc = [NoLoc EXCEPT !.op = "extract", !.url = url, !.page = page]
    /\ result = NoResult

NextExtract ==
    \/ ExtractGameData

SpecExtract == InitExtract /\ [][NextExtract]_vars

\* the extractor has returned game data
Extracted == pc = "done" /\ result.op = "extract" /\ result.status = "ok"

\* the extraction has ended, with game data or with an exception
ExtractEnded == pc = "done" /\ result.op = "extract"

Outcome == CHOOSE r \in result.rows : TRUE

\* no strategy finds an id on the page
NoMarker(page) ==
    page.pid = "" /\ page.script_id = "" /\ page.data_id = "" /\ page.json_id = ""

\* the same page served under another URL
SamePageElsewhere(url) ==
    {u \in ExtractUrls : u # url /\ is_valid_pricecharting_url(u)}

PlatformOf(url) == TitleWords(SplitSlash(urlparse(url).path)[3])

\* C22: when the extracted name is G followed by the platform name P derived
\* from the URL path, the name the extractor returns (the one that is
\* stored) is G.
C22_PlatformStripped ==
    Extracted =>
        LET P == PlatformOf(loc.url)
            name == loc.page.name
            G == SubSeq(name, 1, Len(name) - Len(P))
        IN  (Len(name) > Len(P) /\ EndsWith(name, P)) => Outcome.data.name = G

\* C23: an invalid URL and a failed fetch of a valid URL raise different
\* types at the extractor boundary, the caller of the add operations still
\* sees different types, and what crosses the boundary is never an
\* exception outside the extractor's documented one.
C23_TypedErrors ==
    (ExtractEnded /\ result.status # "ok") =>
        /\ Outcome.boundary.type = "ValueError"
        /\ \A u \in ExtractUrls, page \in ExtractPages :
              LET other == extract_game_data_from_url(u, page).status
              IN  ({other, result.status} = {"invalid_url", "fetch_error"}) =>
                     /\ ExtractionError(other).type # Outcome.boundary.type
                     /\ ServiceError(ExtractionError(other)).type
                           # Outcome.caller.type

-----------------------------------------------------------------------------
(* The handlers with the network and the connection in view.  A handler     *)
(* that fetches waits at a fetch position until the upstream answers or     *)
(* the timeout of the request, when it has one, expires.  loc.conn is the   *)
(* state of the handler's connection: "closed", "open" (no statement        *)
(* pending), "read" (a SELECT whose cursor still has rows: SQLite keeps the *)
(* shared lock of its read transaction) or "tx" (a write transaction).      *)

MaxStepRows == 8

FetchPcs == {"add_fetch", "refresh_fetch", "batch_fetch"}

\* add_game_to_wishlist / add_game_to_collection up to requests.get(url):
\* the URL is validated, then the page is requested
AddCall(op, url, condition, meta) ==
    /\ pc = "idle"
    /\ IF ~is_valid_pricecharting_url(url)
       THEN /\ Return(op, "invalid_url", FALSE, {})
            /\ UNCHANGED <<db, wdb>>
       ELSE /\ pc' = "add_fetch"
            /\ loc' = [NoLoc EXCEPT !.op = op, !.condition = condition,
                                    !.meta = meta, !.url = url]
            /\ UNCHANGED <<db, wdb, result>>

\* the upstream answers the page request: the rest of the extraction, the
\* fallback values, the connection and BEGIN TRANSACTION
AddFetched(resp) ==
    /\ pc = "add_fetch"
    /\ LET ex == extract_game_data_from_url(loc.url, resp)
       IN  IF ex.status # "ok"
           THEN /\ Return(loc.op, ex.status, TRUE, {})
                /\ UNCHANGED <<db, wdb>>
           ELSE /\ pc' = "add_catalog"
                /\ loc' = [loc EXCEPT !.game_data = WithFallbacks(ex.data),
                                      !.conn = "tx"]
                /\ UNCHANGED <<db, wdb, result>>

\* routes.update_game_price up to the fetch: the route's lookup on a
\* connection of its own, then update_game_prices' SELECT on the request's
\* connection, of which fetchone() takes the first row
RefreshCall(game_id) ==
    LET pricecharting_id == LinkedCatalogId(db, game_id)
    IN  /\ pc = "idle"
        /\ IF game_id > Len(db.physical_games)
           THEN /\ Return("update_price", "not_found", FALSE, {})
                /\ UNCHANGED <<db, wdb>>
           ELSE IF pricecharting_id = ""
           THEN /\ Return("update_price", "not_linked", FALSE, {})
                /\ UNCHANGED <<db, wdb>>
           ELSE /\ pc' = "refresh_fetch"
                /\ loc' = [NoLoc EXCEPT
                              !.op = "update_price",
                              !.physical_game_id = game_id,
                              !.game_data = [NoGameData EXCEPT
                                  !.pricecharting_id = pricecharting_id],
                              !.conn = IF Cardinality(LinksOf(db, game_id)) > 1
                                       THEN "read" ELSE "open"]
                /\ UNCHANGED <<db, wdb, result>>

\* get_game_prices has returned to update_game_prices: the insert on the
\* request's connection, which is closed without a commit when it fails
RefreshFetched(fetch, maxRows) ==
    LET records == PriceRecords(loc.game_data.pricecharting_id, fetch)
    IN  /\ pc = "refresh_fetch"
        /\ IF ~fetch.ok
           THEN /\ Return("update_price", "fetch_failed", TRUE, {})
                /\ UNCHANGED <<db, wdb>>
           ELSE /\ Len(db.pricecharting_prices) + Len(PriceConditions) + 1 <= maxRows
                /\ \/ /\ db' = InsertRecords(db, records, Len(records))
                      /\ wdb' = db'
                      /\ Return("update_price", "ok", TRUE, {"pricecharting_prices"})
                   \/ /\ UNCHANGED <<db, wdb>>
                      /\ Return("update_price", "write_failed", TRUE, {})

\* the end of one round of the batch loop
BatchAdvance(success) ==
    /\ loc' = [loc EXCEPT !.i = @ + 1,
                          !.attempted = Append(@, loc.games[loc.i].game_id),
                          !.successful = IF success THEN @ + 1 ELSE @,
                          !.failed = IF success THEN @ ELSE @ + 1,
                          !.conn = "closed", !.records = <<>>]
    /\ pc' = IF loc.i = Len(loc.games) THEN "batch_end" ELSE "batch_item"
    /\ UNCHANGED result

\* a round begins: update_game_price of the batch job requests the page
BatchFetch ==
    /\ pc = "batch_item"
    /\ pc' = "batch_fetch"
    /\ UNCHANGED <<db, wdb, loc, result>>

\* get_game_prices has returned: None ends the round, a price record opens
\* the connection of the round
BatchFetched(fetch) ==
    /\ pc = "batch_fetch"
    /\ IF ~fetch.ok
       THEN /\ BatchAdvance(FALSE)
            /\ UNCHANGED <<db, wdb>>
       ELSE /\ pc' = "batch_write"
            /\ loc' = [loc EXCEPT
                          !.records = PriceRecords(loc.games[loc.i].pricecharting_id,
                                                   fetch),
                          !.conn = "open"]
            /\ UNCHANGED <<db, wdb, result>>

\* the rows of the round that are executed and not committed yet
Pending == Len(wdb.pricecharting_prices) - Len(db.pricecharting_prices)

\* executemany: the next record is inserted in the round's transaction
BatchInsert ==
    /\ pc = "batch_write"
    /\ Pending < Len(loc.records)
    /\ wdb' = [wdb EXCEPT !.pricecharting_prices = Append(@, loc.records[Pending + 1])]
    /\ loc' = [loc EXCEPT !.conn = "tx"]
    /\ UNCHANGED <<db, pc, result>>

\* the commit left to the end of the run: the round ends with its rows
\* still uncommitted
BatchCommit_Deferred ==
    /\ pc = "batch_write"
    /\ Pending = Len(loc.records)
    /\ UNCHANGED <<db, wdb>>
    /\ BatchAdvance(TRUE)

\* connection.commit() of insert_price_records
BatchCommit ==
    /\ pc = "batch_write"
    /\ Pending = Len(loc.records)
    /\ db' = wdb
    /\ wdb' = wdb
    /\ BatchAdvance(TRUE)

\* executemany or the commit raises: insert_price_records returns False and
\* the connection context of update_game_price commits what was executed,
\* or that commit raises too and the connection is dropped
BatchWriteError ==
    /\ pc = "batch_write"
    /\ \/ /\ db' = wdb
          /\ wdb' = wdb
       \/ /\ db' = db
          /\ wdb' = db
    /\ BatchAdvance(FALSE)

\* the job is killed: what its connection has not committed is lost.  The
\* result keeps the counts logged so far and the rows that were pending
BatchInterrupted ==
    /\ pc \in {"batch_item", "batch_fetch", "batch_write", "batch_end"}
    /\ db' = db
    /\ wdb' = db
    /\ ReturnRows("batch", "killed",
                  {[successful |-> loc.successful, failed |-> loc.failed,
                    pending |-> Pending]})

\* requests.get(url, timeout=10) of the two get_game_prices gives up: the
\* fetch returns None.  The page request of the add services has no timeout
FetchTimeout ==
    \/ RefreshFetched(FetchFail, MaxStepRows)
    \/ BatchFetched(FetchFail)

StepFetches == {Fetched(1, OnePrice)}

\* the steps a handler takes on its own, without waiting for anything
LocalStep ==
    \/ AddStep
    \/ AddCommit
    \/ BatchFetch
    \/ BatchInsert
    \/ BatchCommit
    \/ BatchEnd

\* the upstream answers, an add request arrives or a handler fails
NextSteps ==
    \/ \E op \in AddOps, url \in {U_MarioKart, U_NotAUrl} :
          AddCall(op, url, "complete", IF op = "add_to_wishlist" THEN NoMeta ELSE Meta1)
    \/ \E resp \in {NetFail, P_MarioKart, P_MarioKartNoId} : AddFetched(resp)
    \/ AddFail
    \/ \E game_id \in GameIds : RefreshCall(game_id)
    \/ \E fetch \in StepFetches : RefreshFetched(fetch, MaxStepRows)
    \/ \E batch_size \in 1..MaxBatch : BatchStart(batch_size, FALSE, MaxStepRows)
    \/ \E fetch \in StepFetches : BatchFetched(fetch)
    \/ BatchWriteError
    \/ BatchInterrupted
    \/ FetchTimeout
    \/ LocalStep
    \/ Respond

SpecSteps == Init /\ [][NextSteps]_vars

\* the handler's own steps are taken, and a request with a timeout gives up
\* when the upstream stays silent; nothing makes the upstream answer
SpecStepsLive == SpecSteps /\ WF_vars(LocalStep) /\ WF_vars(FetchTimeout)

\* C24: every add-to-wishlist, add-to-collection, manual refresh and batch
\* item that has started eventually ends, also when the upstream never
\* answers.
C24_OperationsTerminate ==
    \A at \in FetchPcs : (pc = at) ~> (pc # at)

\* C26: while a network fetch is in progress the handler holds no database
\* transaction and no lock.
C26_NoLockWhileFetching ==
    (pc \in FetchPcs) => /\ loc.conn \in {"closed", "open"}
                         /\ wdb = db

\* C27: a batch run interrupted at any point keeps the rows of the items
\* committed before, the item in progress has none of its rows persisted
\* until all of them are, and no transaction is carried from one item to
\* the next.
C27_InterruptKeepsCommitted ==
    /\ [](pc \in {"batch_item", "batch_fetch", "batch_end"} => wdb = db)
    /\ [][BatchInterrupted => (db' = db /\ wdb' = db)]_vars
    /\ [][(pc = "batch_write" /\ pc' # "done" /\ loc'.successful > loc.successful)
             => db' = InsertRecords(db, loc.records, Len(loc.records))]_vars
    /\ [][(pc = "batch_write" /\ pc' = "batch_write") => db' = db]_vars

\* the run was killed in the middle of the rows of its second item, and
\* the rows of the first are there
C27_Witness ==
    /\ pc = "done"
    /\ result.status = "killed"
    /\ \E r \in result.rows : r.successful = 1 /\ r.pending = 2
    /\ Len(db.pricecharting_prices) = Len(PriceConditions)
    /\ wdb = db

-----------------------------------------------------------------------------
(* Two reconcile calls at once.  Each call has its own connection; here pc, *)
(* loc, wdb and result have one component per call.  The chain runs after   *)
(* BEGIN TRANSACTION, so SQLite's file locks order the two connections: the *)
(* first SELECT takes the SHARED lock (conn "read") and keeps it to the end *)
(* of the transaction, the first INSERT or UPDATE takes the RESERVED lock   *)
(* (conn "tx"), which one connection at a time can hold, and a commit of    *)
(* changes needs every other connection to have released its SHARED lock.   *)
(* A connection that waits too long gets "database is locked", which the    *)
(* services answer with a rollback.                                          *)

Calls == {1, 2}

ConcReqs == {<<U_MarioKart, P_MarioKart>>, <<U_MarioKart, P_MarioKartNoId>>}

InitConcurrent ==
    /\ db = EmptyDb
    /\ wdb = [c \in Calls |-> EmptyDb]
    /\ pc = [c \in Calls |-> "idle"]
    /\ loc = [c \in Calls |-> NoLoc]
    /\ result = [c \in Calls |-> NoResult]

\* the call ends: its connection is closed and its locks are gone
ConcReturn(c, status, inserted) ==
    /\ pc' = [pc EXCEPT ![c] = "done"]
    /\ loc' = [loc EXCEPT ![c] = NoLoc]
    /\ wdb' = [wdb EXCEPT ![c] = EmptyDb]
    /\ result' = [result EXCEPT ![c] =
                     [op |-> loc[c].op, status |-> status, fetched |-> TRUE,
                      inserted |-> inserted, rows |-> {}]]

\* extraction, the fallback values, the connection and BEGIN TRANSACTION,
\* which takes no lock yet
ConcBegin(c, op, url, condition, meta, resp) ==
    LET ex == extract_game_data_from_url(url, resp)
    IN  /\ pc[c] = "idle"
        /\ ex.status = "ok"
        /\ pc' = [pc EXCEPT ![c] = "add_catalog"]
        /\ loc' = [loc EXCEPT ![c] =
                      [NoLoc EXCEPT !.op = op, !.condition = condition, !.meta = meta,
                                    !.game_data = WithFallbacks(ex.data),
                                    !.conn = "open"]]
        /\ UNCHANGED <<db, wdb, result>>

\* the store as the call's connection reads it: the committed store until
\* its first SELECT, its own snapshot and writes from then on
View(c) == IF loc[c].conn = "open" THEN db ELSE wdb[c]

\* the statement at a position changes the store: the UPDATE or INSERT of
\* the want or ownership row, or the INSERT of a row the SELECT did not find
Writes(at, before, after) ==
    at \in {"add_purchased", "add_wanted"} \/ after.w # before

\* the SELECT of the statement at the call's position.  A row that is found
\* ends the statement; otherwise the INSERT (or UPDATE) it decides is left
\* to be executed
ConcSelect(c) ==
    /\ pc[c] \in AddPcs \ {"add_commit"}
    /\ loc[c].todo = <<>>
    /\ LET before == View(c)
           after == AddStatement(pc[c], before, loc[c])
           held == IF loc[c].conn = "open" THEN "read" ELSE loc[c].conn
       IN  /\ wdb' = [wdb EXCEPT ![c] = before]
           /\ IF Writes(pc[c], before, after)
              THEN /\ loc' = [loc EXCEPT ![c] =
                                 [@ EXCEPT !.conn = held,
                                           !.todo = <<[before |-> before,
                                                       after |-> after]>>]]
                   /\ UNCHANGED pc
              ELSE /\ loc' = [loc EXCEPT ![c] = [after.l EXCEPT !.conn = held]]
                   /\ pc' = [pc EXCEPT ![c] = AddNextPc(loc[c].op, pc[c])]
    /\ UNCHANGED <<db, result>>

\* the rows a statement added to or replaced in a table, applied to the
\* table as it is now
ApplyDelta(now, before, after) ==
    [t \in DOMAIN now |->
        IF t \in {"purchased_games", "wanted_games"}
        THEN (now[t] \ (before[t] \ after[t])) \cup (after[t] \ before[t])
        ELSE IF t \in {"purchased_seq", "wanted_seq"}
        THEN now[t] + (after[t] - before[t])
        ELSE now[t] \o SubSeq(after[t], Len(before[t]) + 1, Len(after[t]))]

\* the chain outside a transaction: every INSERT is committed on its own,
\* whatever the other connection has read in the meantime
ConcWrite_Autocommit(c) ==
    /\ loc[c].todo # <<>>
    /\ LET todo == loc[c].todo[1]
       IN  /\ db' = ApplyDelta(db, todo.before, todo.after.w)
           /\ wdb' = [wdb EXCEPT ![c] = db']
           /\ loc' = [loc EXCEPT ![c] =
                         [todo.after.l EXCEPT !.conn = "open", !.todo = <<>>]]
    /\ pc' = [pc EXCEPT ![c] = AddNextPc(loc[c].op, pc[c])]
    /\ UNCHANGED result

\* the INSERT or UPDATE the SELECT decided, inside the call's transaction:
\* it waits for the RESERVED lock
ConcWrite(c) ==
    /\ loc[c].todo # <<>>
    /\ \A o \in Calls \ {c} : loc[o].conn # "tx"
    /\ LET todo == loc[c].todo[1]
       IN  /\ wdb' = [wdb EXCEPT ![c] = todo.after.w]
           /\ loc' = [loc EXCEPT ![c] =
                         [todo.after.l EXCEPT !.conn = "tx", !.todo = <<>>]]
    /\ pc' = [pc EXCEPT ![c] = AddNextPc(loc[c].op, pc[c])]
    /\ UNCHANGED <<db, result>>

\* conn.commit(): a transaction that wrote waits until no other connection
\* holds a lock
ConcCommit(c) ==
    /\ pc[c] = "add_commit"
    /\ loc[c].conn = "tx" => \A o \in Calls \ {c} : loc[o].conn \notin {"read", "tx"}
    /\ db' = IF loc[c].conn = "tx" THEN wdb[c] ELSE db
    /\ ConcReturn(c, "ok", loc[c].inserted)

\* a statement or the commit raises, "database is locked" after a wait
\* included: conn.rollback() and ValueError to the caller
ConcFail(c) ==
    /\ pc[c] \in AddPcs
    /\ UNCHANGED db
    /\ ConcReturn(c, "storage_error", {})

\* the caller has the response of the call
ConcRespond(c) ==
    /\ pc[c] = "done"
    /\ pc' = [pc EXCEPT ![c] = "idle"]
    /\ result' = [result EXCEPT ![c] = NoResult]
    /\ UNCHANGED <<db, wdb, loc>>

NextConcurrent ==
    \E c \in Calls :
        \/ \E op \in AddOps, rq \in ConcReqs :
              ConcBegin(c, op, rq[1], "complete",
                        IF op = "add_to_wishlist" THEN NoMeta ELSE Meta1, rq[2])
        \/ ConcSelect(c)
        \/ ConcWrite(c)
        \/ ConcCommit(c)
        \/ ConcFail(c)
        \/ ConcRespond(c)

SpecConcurrent == InitConcurrent /\ [][NextConcurrent]_vars

\* C25: whatever the interleaving of two concurrent reconcile calls, the
\* committed store has at most one catalog row per catalog id, at most one
\* game per (name, platform) and at most one association per pair of rows.
C25_NoDuplicatesUnderConcurrency ==
    /\ \A i, j \in RowIds(db.pricecharting_games) :
          db.pricecharting_games[i].pricecharting_id
             = db.pricecharting_games[j].pricecharting_id => i = j
    /\ \A i, j \in RowIds(db.physical_games) :
          db.physical_games[i] = db.physical_games[j] => i = j
    /\ \A i, j \in RowIds(db.physical_games_pricecharting_games) :
          db.physical_games_pricecharting_games[i]
             = db.physical_games_pricecharting_games[j] => i = j

\* both calls are inside their transactions with the same identity record:
\* one has inserted the catalog row and not committed, the other has read
\* and found nothing, and is about to insert it too
C25_Witness ==
    /\ loc[1].conn = "tx"
    /\ Len(wdb[1].pricecharting_games) = 1
    /\ loc[2].conn = "read"
    /\ loc[2].todo # <<>>
    /\ pc[2] = "add_catalog"
    /\ loc[1].game_data = loc[2].game_data
    /\ db = EmptyDb

-----------------------------------------------------------------------------
(* Failed price writes, and wants next to ownership *)

\* C28: a price write is all-or-nothing per fetch.  When insert_price_records
\* returns False for a fetch result -- the manual refresh answers that the
\* write failed, the batch job counts the item as failed -- none of the rows
\* of that fetch is persisted.
C28_FailedWritePersistsNothing ==
    [][/\ (pc = "idle" /\ pc' = "done" /\ result'.op = "update_price"
              /\ result'.status = "write_failed") => db' = db
       /\ (pc = "batch_item" /\ pc' \in BatchPcs /\ loc'.failed > loc.failed)
              => db' = db
      ]_vars

\* C29: in every reachable state no game has both a wanted_games row and a
\* purchased_games row.
C29_WantExcludesOwnership ==
    \A game_id \in 1..Len(db.physical_games) :
        ~(WantedOf(db, game_id) # {} /\ OwnedOf(db, game_id) # {})

\* C30: add_game_to_collection never raises the number of purchased_games
\* rows of a game above one.  For a game without a row it inserts one; for a
\* game with a row it overwrites the condition, acquisition date, source and
\* price of that row, inserts nothing and leaves the number of rows of the
\* game and of the table as they were.
C30_CollectionAddUpserts ==
    [][(AddCommit /\ loc.op = "add_to_collection") =>
          LET g == loc.physical_game_id
              before == OwnedOf(db, g)
              after == OwnedOf(db', g)
              first == FirstId(before)
          IN  /\ db'.purchased_games \ after = db.purchased_games \ before
              /\ IF before = {}
                 THEN /\ Cardinality(after) = 1
                      /\ db'.purchased_seq = db.purchased_seq + 1
                 ELSE /\ Cardinality(after) = Cardinality(before)
                      /\ Cardinality(db'.purchased_games)
                            = Cardinality(db.purchased_games)
                      /\ db'.purchased_seq = db.purchased_seq
                      /\ "purchased_games" \notin result'.inserted
                      /\ after = {IF r.id = first
                                  THEN [r EXCEPT !.condition = loc.condition,
                                                 !.acquisition_date = loc.meta.date,
                                                 !.source = loc.meta.source,
                                                 !.price = loc.meta.price]
                                  ELSE r : r \in before}
      ]_vars

\* a game bought from the wishlist in another condition has been added to
\* the collection again: its one row carries the condition of the request
C30_Witness ==
    /\ pc = "done"
    /\ result.op = "add_to_collection"
    /\ result.status = "ok"
    /\ "purchased_games" \notin result.inserted
    /\ db.purchased_seq = 1
    /\ \E r \in db.purchased_games : r.physical_game = 1 /\ r.condition = "loose"
    /\ Cardinality(OwnedOf(db, 1)) = 1

====
